---- MODULE Spec2Model ----
(***************************************************************************)
(* Model of the GDB/MI communication core of katori.                       *)
(*                                                                         *)
(* The repository holds two generations of the core that share one design: *)
(*   - GdbCommunication (gdbadapter/src/communication.rs), set up with the *)
(*     stdio handles of a child and stopped with stop();                   *)
(*   - GdbAdapter (gdbadapter/src/lib.rs), which spawns the child itself   *)
(*     in start_session and tears it down in stop_session.                 *)
(* The variable impl selects which of the two one behaviour is about.      *)
(*                                                                         *)
(* The child GDB is the environment: it may emit any line at any time      *)
(* (also replies nobody asked for) and may exit at any time.               *)
(***************************************************************************)
EXTENDS Integers, Sequences, FiniteSets, TLC

\* ------------------------------------------------------------------ bounds
MaxToken == 2
MaxLines == 2
MaxSessions == 2
MaxEvents == 2
MaxObservers == 1
MaxOutputObservers == 2

Sessions == 1..MaxSessions

\* ------------------------------------------------------------- option type
None == [some |-> FALSE, v |-> 0]
Some(x) == [some |-> TRUE, v |-> x]

\* -------------------------------------------------------- lines on the wire
\* A line GDB writes on described by what the parser looks at:
\*   kind   result | async | stream | garbage | blank | badutf8
\*   digits the token prefix: none, a decimal that fits u32, or one that
\*          does not ("big")
\*   tok    the value of the prefix when it fits
\*   class  the result class
\*   msg    the msg result: absent, a non-string value, or its text
MsgAbsent == "<absent>"
MsgNonString == "<list>"
MsgTexts == {"No symbol table is loaded."}

ResultLine(d, t, c, m) ==
  [kind |-> "result", digits |-> d, tok |-> t, class |-> c, msg |-> m]
OtherLine(k) ==
  [kind |-> k, digits |-> "none", tok |-> 0, class |-> "", msg |-> MsgAbsent]

ResultLines ==
  {ResultLine("u32", t, "done", MsgAbsent) : t \in 1..MaxToken}
    \cup {ResultLine("u32", t, "error", m) : t \in 1..MaxToken, m \in MsgTexts \cup {MsgAbsent}}
    \cup {ResultLine("none", 0, "done", MsgAbsent), ResultLine("big", 0, "done", MsgAbsent)}

\* "garbage" stands for every line parse_gdb_output rejects, the (gdb) prompt
\* included; "blank" for a line that is empty once trimmed; "badutf8" for
\* bytes read_line cannot decode.
Lines ==
  ResultLines \cup {OtherLine(k) : k \in {"async", "stream", "garbage", "blank", "badutf8"}}

NoLine == OtherLine("none")
Eof == OtherLine("eof")

\* ------------------------------------------------------------------ parser
ParseErr ==
  [ok |-> FALSE, kind |-> "Err", token |-> None, class |-> "", msg |-> MsgAbsent]

parse_result_record(line) ==
  [ok |-> TRUE, kind |-> "Result",
   token |-> IF line.digits = "u32" THEN Some(line.tok) ELSE None,
   class |-> line.class, msg |-> line.msg]

parse_gdb_output(line) ==
  CASE line.kind \in {"blank", "garbage"} -> ParseErr
    [] line.kind = "stream" ->
         [ok |-> TRUE, kind |-> "Stream", token |-> None, class |-> "", msg |-> MsgAbsent]
    [] line.kind = "async" ->
         [ok |-> TRUE, kind |-> "Async", token |-> None, class |-> "", msg |-> MsgAbsent]
    [] line.kind = "result" -> parse_result_record(line)
    [] OTHER -> ParseErr

\* ------------------------------------------------------------------- state
VARIABLES
  impl,              \* "comm" (GdbCommunication) or "adapter" (GdbAdapter)
  is_running,        \* the running flag
  stdin,             \* Option<ChildStdin>: 0 = None, s = stdin of child s
  process,           \* GdbAdapter.process: 0 = None, s = child s
  token_counter,     \* next token to allocate
  pending_commands,  \* keys of the token -> oneshot sender map
  events,            \* everything sent on event_sender, in order
  calls,             \* per allocated token: the send_command call and its oneshot
  borrow,            \* the call that currently holds &mut self
  readers,           \* per session: the spawned stdout reader task
  child,             \* per session: "none", "alive" or "exited"
  sessions,          \* number of children started so far
  alloc,             \* tokens in allocation order
  stdin_log,         \* tokens of the command lines written to stdin
  emitted,           \* number of lines the readers read so far
  lastline,          \* the line a stdout reader read last
  ret                \* what the last call that allocated no token returned

\* The consumer side: the event channel and a GdbEventHandler draining it.
VARIABLES
  event_channel,          \* events sent and not yet received, oldest first
  sent,                   \* per stream: number of events its reader has sent
  handled,                \* the events handle_event was given, in order
  execution_info,         \* GdbEventHandler.execution_info
  state_change_callbacks, \* number of registered state observers
  state_notified,         \* observer invocations so far, and the last argument
  console_output,         \* GdbEventHandler.console_output
  output_notified,        \* output callback rounds so far
  output_callbacks,       \* GdbEventHandler.output_callbacks: the observers, in order
  output_log,             \* every output callback invocation so far, in order
  lifecycle_calls         \* set_execution_state calls so far

\* One application of a decoder to one input.
VARIABLES
  dec_in,    \* the function applied and its argument
  dec_out,   \* what it returned
  dec_done   \* whether it has been applied

\* The GUI (katori-gui): the debugging flags of AppState and the two
\* channels between the egui thread and the command processor.
VARIABLES
  app_state,        \* AppState.is_debugging and AppState.is_attached
  command_channel,  \* GdbCommands sent and not yet received, oldest first
  debug_events,     \* DebugEvents sent and not yet received, oldest first
  clicks            \* number of button clicks so far

pvars == <<dec_in, dec_out, dec_done>>

gvars == <<app_state, command_channel, debug_events, clicks>>

hvars == <<event_channel, sent, handled, execution_info, state_change_callbacks,
           state_notified, console_output, output_notified, output_callbacks,
           output_log, lifecycle_calls>>

cvars == <<impl, is_running, stdin, process, token_counter, pending_commands,
           events, calls, borrow, readers, child, sessions, alloc,
           stdin_log, emitted, lastline, ret>>

vars == <<impl, is_running, stdin, process, token_counter, pending_commands,
          events, calls, borrow, readers, child, sessions, alloc,
          stdin_log, emitted, lastline, ret, event_channel, sent, handled,
          execution_info, state_change_callbacks, state_notified,
          console_output, output_notified, output_callbacks, output_log,
          lifecycle_calls,
          dec_in, dec_out, dec_done,
          app_state, command_channel, debug_events, clicks>>

\* ------------------------------------------------------------ return values
Ok(class, msg) == [kind |-> "Ok", err |-> "", class |-> class, msg |-> msg]
Err(e, msg) == [kind |-> "Err", err |-> e, class |-> "", msg |-> msg]
NoRet == [kind |-> "none", err |-> "", class |-> "", msg |-> ""]

\* CommunicationError / GdbError variants each implementation returns
ErrNotRunning == IF impl = "comm" THEN Err("ChannelClosed", "") ELSE Err("ProcessTerminated", "")
ErrNoStdin == IF impl = "comm" THEN Err("ChannelClosed", "") ELSE Err("ProcessTerminated", "")
ErrWrite == IF impl = "comm" THEN Err("WriteError", "") ELSE Err("CommunicationError", "Failed to write command")
ErrClosed ==
  IF impl = "comm" THEN Err("ChannelClosed", "")
  ELSE Err("CommunicationError", "Command response channel closed")
ErrGdb(m) == IF impl = "comm" THEN Err("GdbError", m) ELSE Err("CommandError", m)

\* the oneshot slot of a call
Empty == [full |-> FALSE, class |-> "", msg |-> MsgAbsent]
Full(r) == [full |-> TRUE, class |-> r.class, msg |-> r.msg]

NoBorrow == [kind |-> "none", tok |-> 0, pc |-> ""]
NoReader == [pc |-> "none", why |-> ""]

\* ------------------------------------------------ MI values and their decoders
\* Strings that the code parses as numbers are sequences of characters.
NoneStr == [some |-> FALSE, v |-> ""]
SomeStr(x) == [some |-> TRUE, v |-> x]

\* A Value found under a key of a results map: absent, a String, or a List.
\* StrV carries text the code only copies; NumV text the code parses.
AbsentV == [t |-> "absent", s |-> ""]
StrV(x) == [t |-> "string", s |-> x]
ListV == [t |-> "list", s |-> ""]
AbsentN == [t |-> "absent", chars |-> <<>>]
NumV(cs) == [t |-> "string", chars |-> cs]

\* Value::as_string on either kind.
as_string(v) == v.t = "string"

DigitOf(c) ==
  CASE c = "0" -> 0 [] c = "1" -> 1 [] c = "2" -> 2 [] c = "3" -> 3 [] c = "4" -> 4
    [] c = "5" -> 5 [] c = "6" -> 6 [] c = "7" -> 7 [] c = "8" -> 8 [] c = "9" -> 9
    [] OTHER -> -1

I32Max == 2147483647

\* Accumulate decimal digits left to right as core::num does: towards
\* I32Max for a positive number, towards -I32Max-1 for a negative one; a
\* non-digit or an overflow makes the parse fail.
RECURSIVE from_digits(_, _, _)
from_digits(cs, acc, neg) ==
  IF cs = <<>> THEN [ok |-> TRUE, v |-> acc]
  ELSE LET d == DigitOf(Head(cs)) IN
       IF d < 0 THEN [ok |-> FALSE, v |-> 0]
       ELSE IF ~neg
         THEN IF acc > I32Max \div 10 \/ (acc = I32Max \div 10 /\ d > (I32Max % 10))
                THEN [ok |-> FALSE, v |-> 0]
                ELSE from_digits(Tail(cs), acc * 10 + d, neg)
         ELSE IF acc < -(I32Max \div 10) \/ (acc = -(I32Max \div 10) /\ d > (I32Max % 10) + 1)
                THEN [ok |-> FALSE, v |-> 0]
                ELSE from_digits(Tail(cs), acc * 10 - d, neg)

\* str::parse::<i32>: an optional sign, then at least one digit.
parse_i32(cs) ==
  IF cs = <<>> THEN [ok |-> FALSE, v |-> 0]
  ELSE IF Head(cs) \in {"+", "-"}
    THEN IF Tail(cs) = <<>> THEN [ok |-> FALSE, v |-> 0]
         ELSE from_digits(Tail(cs), 0, Head(cs) = "-")
    ELSE from_digits(cs, 0, FALSE)

\* str::parse::<u32>: an optional `+`, then at least one digit.  The numbers
\* of this model end at I32Max, so the texts drawn for u32 fields stay below
\* it.
parse_u32(cs) ==
  IF cs = <<>> THEN [ok |-> FALSE, v |-> 0]
  ELSE IF Head(cs) = "+"
    THEN IF Tail(cs) = <<>> THEN [ok |-> FALSE, v |-> 0]
         ELSE from_digits(Tail(cs), 0, FALSE)
    ELSE from_digits(cs, 0, FALSE)

\* ---------------------------------------------------------------- StackFrame
NoFrameFields ==
  [level |-> AbsentN, addr |-> AbsentV, func |-> AbsentV, file |-> AbsentV,
   fullname |-> AbsentV, line |-> AbsentN]
\* The frame value of a results map: absent, a tuple, or some other value.
AbsentF == [t |-> "absent", tuple |-> NoFrameFields]
TupleF(fields) == [t |-> "tuple", tuple |-> fields]
StringF == [t |-> "string", tuple |-> NoFrameFields]

EmptyFrame ==
  [level |-> 0, addr |-> "", func |-> NoneStr, file |-> NoneStr,
   fullname |-> NoneStr, line |-> None]
NoneFrame == [some |-> FALSE, v |-> EmptyFrame]
SomeFrame(f) == [some |-> TRUE, v |-> f]

opt_string(v) == IF as_string(v) THEN SomeStr(v.s) ELSE NoneStr
opt_u32(v) ==
  IF as_string(v) /\ parse_u32(v.chars).ok THEN Some(parse_u32(v.chars).v) ELSE None

\* Variant: a tuple without level decodes as frame 0.
from_tuple_lenient(tuple) ==
  IF ~as_string(tuple.addr) THEN [ok |-> FALSE, frame |-> EmptyFrame]
  ELSE [ok |-> TRUE,
        frame |-> [level |-> IF opt_u32(tuple.level).some THEN opt_u32(tuple.level).v ELSE 0,
                   addr |-> tuple.addr.s,
                   func |-> opt_string(tuple.func), file |-> opt_string(tuple.file),
                   fullname |-> opt_string(tuple.fullname), line |-> opt_u32(tuple.line)]]

\* StackFrame::from_tuple: level and addr are required, the rest optional.
from_tuple(tuple) ==
  IF ~opt_u32(tuple.level).some THEN [ok |-> FALSE, frame |-> EmptyFrame]
  ELSE IF ~as_string(tuple.addr) THEN [ok |-> FALSE, frame |-> EmptyFrame]
  ELSE [ok |-> TRUE,
        frame |-> [level |-> opt_u32(tuple.level).v, addr |-> tuple.addr.s,
                   func |-> opt_string(tuple.func), file |-> opt_string(tuple.file),
                   fullname |-> opt_string(tuple.fullname), line |-> opt_u32(tuple.line)]]

\* ------------------------------------------------------------------ GdbEvent
\* The keys of a results map that the handler reads.
NoResults ==
  [reason |-> AbsentV, exit_code |-> AbsentN, signal_name |-> AbsentV,
   signal_meaning |-> AbsentV, frame |-> AbsentF]

AsyncEvent(class, results) ==
  [kind |-> "Async", class |-> class, results |-> results, content |-> ""]
StreamEvent(stream_type, content) ==
  [kind |-> "Stream", class |-> stream_type, results |-> NoResults, content |-> content]
ResultEvent(class) ==
  [kind |-> "Result", class |-> class, results |-> NoResults, content |-> ""]

\* ------------------------------------------------------------- ExecutionInfo
DebugState(k) == [k |-> k, code |-> 0]
Exited(code) == [k |-> "Exited", code |-> code]

\* ExecutionInfo::default()
ExecutionInfoDefault ==
  [state |-> DebugState("Stopped"), current_frame |-> NoneFrame, reason |-> NoneStr,
   signal_name |-> NoneStr, signal_meaning |-> NoneStr, exit_code |-> None]

NotNotified == [n |-> 0, info |-> ExecutionInfoDefault]

\* No decoder is being applied.
NoDecoding ==
  /\ dec_in = [fn |-> "none", arg |-> ""]
  /\ dec_out = <<>>
  /\ dec_done = FALSE

\* KatoriApp::new: AppState::default() and two empty channels.
GuiNew ==
  /\ app_state = [is_debugging |-> FALSE, is_attached |-> FALSE]
  /\ command_channel = <<>>
  /\ debug_events = <<>>
  /\ clicks = 0

\* GdbEventHandler::new on a channel nothing was sent on, with k observers.
HandlerNew(k) ==
  /\ event_channel = <<>>
  /\ sent = [stdout |-> 0, stderr |-> 0]
  /\ handled = <<>>
  /\ execution_info = ExecutionInfoDefault
  /\ state_change_callbacks = k
  /\ state_notified = NotNotified
  /\ console_output = <<>>
  /\ output_notified = 0
  /\ output_callbacks = <<>>
  /\ output_log = <<>>
  /\ lifecycle_calls = 0

Init ==
  /\ impl \in {"comm", "adapter"}
  /\ is_running = FALSE
  /\ stdin = 0
  /\ process = 0
  /\ token_counter = 1
  /\ pending_commands = {}
  /\ events = <<>>
  /\ calls = <<>>
  /\ borrow = NoBorrow
  /\ readers = [s \in Sessions |-> NoReader]
  /\ child = [s \in Sessions |-> "none"]
  /\ sessions = 0
  /\ alloc = <<>>
  /\ stdin_log = <<>>
  /\ emitted = 0
  /\ lastline = NoLine
  /\ ret = [op |-> "new", res |-> NoRet]
  /\ HandlerNew(0)
  /\ NoDecoding
  /\ GuiNew

\* ----------------------------------------------------------- oneshot channel
\* sender.send(result): fills the slot if the receiver is still held by a
\* call that has not returned; otherwise the value is dropped (the Err is
\* ignored by `let _ =`).
oneshot_send(c, r) ==
  IF c.st \in {"writing", "waiting"}
    THEN [c EXCEPT !.slot = Full(r), !.ncompl = @ + 1]
    ELSE c

\* --------------------------------------------------------- routing one line
\* Variant: a result record with a token is also broadcast as an event.
process_gdb_output_broadcast(line, ev, pend, cs) ==
  LET out == parse_gdb_output(line) IN
  IF ~out.ok THEN [events |-> ev, pending |-> pend, calls |-> cs]
  ELSE IF out.kind = "Result" /\ out.token.some /\ out.token.v \in pend
    THEN [events |-> Append(ev, out), pending |-> pend \ {out.token.v},
          calls |-> [cs EXCEPT ![out.token.v] = oneshot_send(@, out)]]
  ELSE IF out.kind = "Result" /\ out.token.some
    THEN [events |-> ev, pending |-> pend, calls |-> cs]
  ELSE [events |-> Append(ev, out), pending |-> pend, calls |-> cs]

\* Variant: the entry is looked up with get() and left in the table.
process_gdb_output_keep(line, ev, pend, cs) ==
  LET out == parse_gdb_output(line) IN
  IF ~out.ok THEN [events |-> ev, pending |-> pend, calls |-> cs]
  ELSE IF out.kind = "Result" /\ out.token.some /\ out.token.v \in pend
    THEN [events |-> ev, pending |-> pend,
          calls |-> [cs EXCEPT ![out.token.v] = oneshot_send(@, out)]]
  ELSE IF out.kind = "Result" /\ out.token.some
    THEN [events |-> ev, pending |-> pend, calls |-> cs]
  ELSE [events |-> Append(ev, out), pending |-> pend, calls |-> cs]

\* Variant: a line that does not parse is reported as an event.
process_gdb_output_errevent(line, ev, pend, cs) ==
  LET out == parse_gdb_output(line) IN
  IF ~out.ok THEN [events |-> Append(ev, out), pending |-> pend, calls |-> cs]
  ELSE IF out.kind = "Result" THEN
    IF out.token.some THEN
      IF out.token.v \in pend
        THEN [events |-> ev, pending |-> pend \ {out.token.v},
              calls |-> [cs EXCEPT ![out.token.v] = oneshot_send(@, out)]]
        ELSE [events |-> ev, pending |-> pend, calls |-> cs]
    ELSE [events |-> Append(ev, out), pending |-> pend, calls |-> cs]
  ELSE [events |-> Append(ev, out), pending |-> pend, calls |-> cs]

\* Variant: a result whose receiver is gone is passed on as an event.
process_gdb_output_orphan(line, ev, pend, cs) ==
  LET out == parse_gdb_output(line) IN
  IF ~out.ok THEN [events |-> ev, pending |-> pend, calls |-> cs]
  ELSE IF out.kind = "Result" THEN
    IF out.token.some THEN
      IF out.token.v \in pend
        THEN [events |-> IF cs[out.token.v].st \in {"writing", "waiting"}
                           THEN ev ELSE Append(ev, out),
              pending |-> pend \ {out.token.v},
              calls |-> [cs EXCEPT ![out.token.v] = oneshot_send(@, out)]]
        ELSE [events |-> ev, pending |-> pend, calls |-> cs]
    ELSE [events |-> Append(ev, out), pending |-> pend, calls |-> cs]
  ELSE [events |-> Append(ev, out), pending |-> pend, calls |-> cs]

\* GdbCommunication::process_gdb_output: the new events, pending table and
\* calls after one trimmed, non-empty line.
process_gdb_output(line, ev, pend, cs) ==
  LET out == parse_gdb_output(line) IN
  IF ~out.ok THEN [events |-> ev, pending |-> pend, calls |-> cs]
  ELSE IF out.kind = "Result" THEN
    IF out.token.some THEN
      IF out.token.v \in pend
        THEN [events |-> ev, pending |-> pend \ {out.token.v},
              calls |-> [cs EXCEPT ![out.token.v] = oneshot_send(@, out)]]
        ELSE [events |-> ev, pending |-> pend, calls |-> cs]
    ELSE [events |-> Append(ev, out), pending |-> pend, calls |-> cs]
  ELSE [events |-> Append(ev, out), pending |-> pend, calls |-> cs]

\* Variant: a result whose token has no entry falls through to the event
\* stream.
adapter_route_line_leak(line, ev, pend, cs) ==
  LET out == parse_gdb_output(line) IN
  IF ~out.ok THEN [events |-> ev, pending |-> pend, calls |-> cs]
  ELSE IF out.kind = "Result" /\ out.token.some /\ out.token.v \in pend
    THEN [events |-> ev, pending |-> pend \ {out.token.v},
          calls |-> [cs EXCEPT ![out.token.v] = oneshot_send(@, out)]]
  ELSE [events |-> Append(ev, out), pending |-> pend, calls |-> cs]

\* Variant: a result without a token is taken as the answer to the oldest
\* pending command.
adapter_route_line_oldest(line, ev, pend, cs) ==
  LET out == parse_gdb_output(line) IN
  IF ~out.ok THEN [events |-> ev, pending |-> pend, calls |-> cs]
  ELSE IF out.kind = "Result" /\ out.token.some /\ out.token.v \in pend
    THEN [events |-> ev, pending |-> pend \ {out.token.v},
          calls |-> [cs EXCEPT ![out.token.v] = oneshot_send(@, out)]]
  ELSE IF out.kind = "Result" /\ out.token.some
    THEN [events |-> ev, pending |-> pend, calls |-> cs]
  ELSE IF out.kind = "Result" /\ pend # {}
    THEN LET t == CHOOSE x \in pend : \A y \in pend : x <= y IN
         [events |-> Append(ev, out), pending |-> pend \ {t},
          calls |-> [cs EXCEPT ![t] = oneshot_send(@, out)]]
  ELSE [events |-> Append(ev, out), pending |-> pend, calls |-> cs]

\* The same routing as written inline in GdbAdapter::start_output_reader.
adapter_route_line(line, ev, pend, cs) ==
  LET out == parse_gdb_output(line) IN
  IF ~out.ok THEN [events |-> ev, pending |-> pend, calls |-> cs]
  ELSE IF out.kind = "Result" THEN
    IF out.token.some THEN
      IF out.token.v \in pend
        THEN [events |-> ev, pending |-> pend \ {out.token.v},
              calls |-> [cs EXCEPT ![out.token.v] = oneshot_send(@, out)]]
        ELSE [events |-> ev, pending |-> pend, calls |-> cs]
    ELSE [events |-> Append(ev, out), pending |-> pend, calls |-> cs]
  ELSE [events |-> Append(ev, out), pending |-> pend, calls |-> cs]

route_line(line, ev, pend, cs) ==
  IF impl = "comm" THEN process_gdb_output(line, ev, pend, cs)
  ELSE adapter_route_line(line, ev, pend, cs)

\* ------------------------------------------------------- stdout reader task
\* Top of the loop: `while *is_running.lock().unwrap()`, then line.clear().
ReaderCheck(s) ==
  /\ readers[s].pc = "check"
  /\ readers' = [readers EXCEPT ![s] =
       IF is_running THEN [pc |-> "reading", why |-> ""]
       ELSE [pc |-> "finished", why |-> "flag"]]
  /\ UNCHANGED <<impl, is_running, stdin, process, token_counter, pending_commands,
                 events, calls, borrow, child, sessions, alloc,
                 stdin_log, emitted, lastline, ret>>
  /\ UNCHANGED hvars
  /\ UNCHANGED pvars
  /\ UNCHANGED gvars

\* reader.read_line(&mut line).await and the match on its result.  What the
\* read yields is the child's choice: the next line it wrote (a child that has
\* exited may still have lines buffered in the pipe), or end of file once it
\* has exited.
ReaderRead(s, l) ==
  /\ readers[s].pc = "reading"
  /\ IF l = Eof
       THEN /\ child[s] = "exited"     \* Ok(0)
            /\ readers' = [readers EXCEPT ![s] = [pc |-> "finished", why |-> "io"]]
            /\ UNCHANGED <<events, pending_commands, calls, lastline, emitted>>
       ELSE /\ emitted < MaxLines
            /\ emitted' = emitted + 1
            /\ lastline' = l
            /\ IF l.kind = "badutf8"   \* Err(e): the bytes are not UTF-8
                 THEN /\ readers' = [readers EXCEPT ![s] = [pc |-> "finished", why |-> "io"]]
                      /\ UNCHANGED <<events, pending_commands, calls>>
                 ELSE /\ readers' = [readers EXCEPT ![s] = [pc |-> "check", why |-> ""]]
                      /\ IF l.kind = "blank"   \* trimmed.is_empty()
                           THEN UNCHANGED <<events, pending_commands, calls>>
                           ELSE LET r == route_line(l, events, pending_commands, calls) IN
                                /\ events' = r.events
                                /\ pending_commands' = r.pending
                                /\ calls' = r.calls
  /\ UNCHANGED <<impl, is_running, stdin, process, token_counter, borrow, child,
                 sessions, alloc, stdin_log, ret>>
  /\ UNCHANGED hvars
  /\ UNCHANGED pvars
  /\ UNCHANGED gvars

\* ------------------------------------------------------------ the child GDB
\* The child exits (on its own, on gdb-exit, or killed by its owner).
ChildExit(s) ==
  /\ child[s] = "alive"
  /\ child' = [child EXCEPT ![s] = "exited"]
  /\ UNCHANGED <<impl, is_running, stdin, process, token_counter, pending_commands,
                 events, calls, borrow, readers, sessions, alloc,
                 stdin_log, emitted, lastline, ret>>
  /\ UNCHANGED hvars
  /\ UNCHANGED pvars
  /\ UNCHANGED gvars

\* ------------------------------------------------------------- send_command
\* Variant: the incremented value is returned (add-then-fetch).
fetch_add_new(c) == [token |-> c + 1, next |-> c + 1]

\* token_counter.fetch_add(1, SeqCst): the value returned and the new counter.
fetch_add(c) == [token |-> c, next |-> c + 1]

NewCall == [st |-> "writing", slot |-> Empty, ncompl |-> 0, res |-> NoRet]

\* The call returns r; its receiver, and any value in it, is consumed.
Returned(c, r) == [c EXCEPT !.st = "returned", !.slot = Empty, !.res = r]

\* Variant: the msg result is not read.
comm_result_nomsg(slot) ==
  IF slot.class = "error" THEN Err("GdbError", "Unknown error") ELSE Ok(slot.class, slot.msg)

\* What send_command makes of the value its receiver yields
\* (GdbCommunication::send_command, after `receiver.await`).
comm_result(slot) ==
  IF slot.class = "error"
    THEN Err("GdbError",
             IF slot.msg \in {MsgAbsent, MsgNonString} THEN "Unknown error" ELSE slot.msg)
    ELSE Ok(slot.class, slot.msg)

\* The same in GdbAdapter::send_command.
adapter_result(slot) ==
  IF slot.class = "error"
    THEN Err("CommandError",
             IF slot.msg \in {MsgAbsent, MsgNonString} THEN "Unknown error" ELSE slot.msg)
    ELSE Ok(slot.class, slot.msg)

await_result(slot) ==
  IF impl = "comm" THEN comm_result(slot) ELSE adapter_result(slot)

\* Who holds &mut self once the send_command of `b` has returned.
AfterSend(b) ==
  IF b.kind = "stop" THEN [kind |-> "stop", tok |-> b.tok, pc |-> "cleanup"] ELSE NoBorrow

\* Variant: the sender is not put into the pending table.
BeginSend_noinsert(owner) ==
  LET fa == fetch_add(token_counter)
      T  == fa.token IN
  /\ token_counter' = fa.next
  /\ alloc' = Append(alloc, T)
  /\ pending_commands' = pending_commands
  /\ IF stdin = 0
       THEN /\ calls' = [t \in DOMAIN calls \cup {T} |->
                           IF t = T THEN Returned(NewCall, ErrNoStdin) ELSE calls[t]]
            /\ borrow' = AfterSend([kind |-> owner, tok |-> T, pc |-> "send"])
       ELSE /\ calls' = [t \in DOMAIN calls \cup {T} |->
                           IF t = T THEN NewCall ELSE calls[t]]
            /\ borrow' = [kind |-> owner, tok |-> T, pc |-> "send"]

\* send_command from the running check to its first suspension point:
\* allocate the token, register the sender, start writing to stdin.
BeginSend(owner) ==
  LET fa == fetch_add(token_counter)
      T  == fa.token IN
  /\ token_counter' = fa.next
  /\ alloc' = Append(alloc, T)
  /\ pending_commands' = pending_commands \cup {T}
  /\ IF stdin = 0
       THEN /\ calls' = [t \in DOMAIN calls \cup {T} |->
                           IF t = T THEN Returned(NewCall, ErrNoStdin) ELSE calls[t]]
            /\ borrow' = AfterSend([kind |-> owner, tok |-> T, pc |-> "send"])
       ELSE /\ calls' = [t \in DOMAIN calls \cup {T} |->
                           IF t = T THEN NewCall ELSE calls[t]]
            /\ borrow' = [kind |-> owner, tok |-> T, pc |-> "send"]

\* Variant: send_command without its running check.
SendCommand_unchecked ==
  /\ borrow = NoBorrow
  /\ token_counter <= MaxToken
  /\ BeginSend("send")
  /\ ret' = ret
  /\ UNCHANGED <<impl, is_running, stdin, process, events, readers, child,
                 sessions, stdin_log, emitted, lastline>>
  /\ UNCHANGED hvars
  /\ UNCHANGED pvars
  /\ UNCHANGED gvars

\* A caller invokes send_command.
SendCommand ==
  /\ borrow = NoBorrow
  /\ IF ~is_running
       THEN /\ ret' = [op |-> "send", res |-> ErrNotRunning]
            /\ UNCHANGED <<token_counter, alloc, pending_commands, calls, borrow>>
       ELSE /\ token_counter <= MaxToken
            /\ BeginSend("send")
            /\ ret' = ret
  /\ UNCHANGED <<impl, is_running, stdin, process, events, readers, child,
                 sessions, stdin_log, emitted, lastline>>
  /\ UNCHANGED hvars
  /\ UNCHANGED pvars
  /\ UNCHANGED gvars

\* stdin.write_all(..).await and stdin.flush().await complete: the child
\* reads the pipe, or the pipe is broken because the child has exited.
SendWrite ==
  /\ borrow.pc = "send"
  /\ calls[borrow.tok].st = "writing"
  /\ IF child[stdin] = "alive"
       THEN /\ stdin_log' = Append(stdin_log, borrow.tok)
            /\ calls' = [calls EXCEPT ![borrow.tok].st = "waiting"]
            /\ UNCHANGED borrow
       ELSE /\ calls' = [calls EXCEPT ![borrow.tok] = Returned(@, ErrWrite)]
            /\ borrow' = AfterSend(borrow)
            /\ UNCHANGED stdin_log
  /\ UNCHANGED <<ret, impl, is_running, stdin, process, token_counter, pending_commands,
                 events, readers, child, sessions, alloc, emitted, lastline>>
  /\ UNCHANGED hvars
  /\ UNCHANGED pvars
  /\ UNCHANGED gvars

\* `receiver.await` yields the record the reader sent.  (The sender of a
\* registered entry is never dropped without a send: nothing clears the map.)
SendReceive ==
  /\ borrow.pc = "send"
  /\ calls[borrow.tok].st = "waiting"
  /\ calls[borrow.tok].slot.full
  /\ calls' = [calls EXCEPT ![borrow.tok] = Returned(@, await_result(@.slot))]
  /\ borrow' = AfterSend(borrow)
  /\ UNCHANGED <<ret, impl, is_running, stdin, process, token_counter, pending_commands,
                 events, readers, child, sessions, alloc, stdin_log, emitted, lastline>>
  /\ UNCHANGED hvars
  /\ UNCHANGED pvars
  /\ UNCHANGED gvars

\* The caller gives up (tokio::time::timeout elapses, or its task is dropped):
\* the future is dropped at its suspension point, and the receiver with it.
Abandon ==
  /\ borrow.pc = "send"
  /\ calls[borrow.tok].st \in {"writing", "waiting"}
  /\ calls' = [calls EXCEPT ![borrow.tok].st = "abandoned", ![borrow.tok].slot = Empty]
  /\ borrow' = NoBorrow
  /\ UNCHANGED <<ret, impl, is_running, stdin, process, token_counter, pending_commands,
                 events, readers, child, sessions, alloc, stdin_log, emitted, lastline>>
  /\ UNCHANGED hvars
  /\ UNCHANGED pvars
  /\ UNCHANGED gvars

\* ------------------------------------------------- GdbCommunication lifecycle
NewReader == [pc |-> "check", why |-> ""]

\* GdbCommunication::setup with the handles of a freshly started child.
Setup ==
  /\ impl = "comm"
  /\ borrow = NoBorrow
  /\ sessions < MaxSessions
  /\ LET s == sessions + 1 IN
     /\ sessions' = s
     /\ child' = [child EXCEPT ![s] = "alive"]
     /\ stdin' = s
     /\ is_running' = TRUE
     /\ readers' = [readers EXCEPT ![s] = NewReader]
  /\ ret' = [op |-> "setup", res |-> Ok("", "")]
  /\ UNCHANGED <<impl, process, token_counter, pending_commands, events, calls,
                 borrow, alloc, stdin_log, emitted, lastline>>
  /\ UNCHANGED hvars
  /\ UNCHANGED pvars
  /\ UNCHANGED gvars

\* GdbCommunication::stop.
Stop ==
  /\ impl = "comm"
  /\ borrow = NoBorrow
  /\ is_running' = FALSE
  /\ stdin' = 0
  /\ ret' = [op |-> "stop", res |-> Ok("", "")]
  /\ UNCHANGED <<impl, process, token_counter, pending_commands, events, calls,
                 borrow, readers, child, sessions, alloc, stdin_log, emitted, lastline>>
  /\ UNCHANGED hvars
  /\ UNCHANGED pvars
  /\ UNCHANGED gvars

\* ------------------------------------------------------- GdbAdapter lifecycle
\* Variant: start_session without its already-running check.
StartSession_unchecked ==
  /\ impl = "adapter"
  /\ borrow = NoBorrow
  /\ \/ /\ ret' = [op |-> "start", res |-> Err("ProcessStartError", "")]
        /\ UNCHANGED <<sessions, child, stdin, process, readers, borrow>>
     \/ /\ sessions < MaxSessions
        /\ LET s == sessions + 1 IN
           /\ sessions' = s
           /\ child' = [child EXCEPT ![s] = "alive"]
           /\ stdin' = s
           /\ process' = s
           /\ readers' = [readers EXCEPT ![s] = NewReader]
        /\ borrow' = [kind |-> "start", tok |-> 0, pc |-> "set_running"]
        /\ ret' = ret
  /\ UNCHANGED <<impl, is_running, token_counter, pending_commands, events, calls,
                 alloc, stdin_log, emitted, lastline>>
  /\ UNCHANGED hvars
  /\ UNCHANGED pvars
  /\ UNCHANGED gvars

\* start_session up to and including the spawn of the two reader tasks; or
\* its early returns (session already running, spawn failure).
StartSession ==
  /\ impl = "adapter"
  /\ borrow = NoBorrow
  /\ \/ /\ is_running
        /\ ret' = [op |-> "start",
                   res |-> Err("CommandError", "GDB session already running")]
        /\ UNCHANGED <<sessions, child, stdin, process, readers, borrow>>
     \/ /\ ~is_running
        /\ ret' = [op |-> "start", res |-> Err("ProcessStartError", "")]
        /\ UNCHANGED <<sessions, child, stdin, process, readers, borrow>>
     \/ /\ ~is_running
        /\ sessions < MaxSessions
        /\ LET s == sessions + 1 IN
           /\ sessions' = s
           /\ child' = [child EXCEPT ![s] = "alive"]
           /\ stdin' = s
           /\ process' = s
           /\ readers' = [readers EXCEPT ![s] = NewReader]
        /\ borrow' = [kind |-> "start", tok |-> 0, pc |-> "set_running"]
        /\ ret' = ret
  /\ UNCHANGED <<impl, is_running, token_counter, pending_commands, events, calls,
                 alloc, stdin_log, emitted, lastline>>
  /\ UNCHANGED hvars
  /\ UNCHANGED pvars
  /\ UNCHANGED gvars

\* start_session: `*self.is_running.lock().unwrap() = true; Ok(())`.
StartSessionFinish ==
  /\ borrow.kind = "start"
  /\ is_running' = TRUE
  /\ borrow' = NoBorrow
  /\ ret' = [op |-> "start", res |-> Ok("", "")]
  /\ UNCHANGED <<impl, stdin, process, token_counter, pending_commands, events, calls,
                 readers, child, sessions, alloc, stdin_log, emitted, lastline>>
  /\ UNCHANGED hvars
  /\ UNCHANGED pvars
  /\ UNCHANGED gvars

\* Variant: stop_session without its early return.
StopSession_unchecked ==
  /\ impl = "adapter"
  /\ borrow = NoBorrow
  /\ token_counter <= MaxToken
  /\ BeginSend("stop")
  /\ ret' = ret
  /\ UNCHANGED <<impl, is_running, stdin, process, events, readers, child,
                 sessions, stdin_log, emitted, lastline>>
  /\ UNCHANGED hvars
  /\ UNCHANGED pvars
  /\ UNCHANGED gvars

\* stop_session: the early return, or the start of its gdb-exit command.
StopSession ==
  /\ impl = "adapter"
  /\ borrow = NoBorrow
  /\ IF ~is_running
       THEN /\ ret' = [op |-> "stop", res |-> Ok("", "")]
            /\ UNCHANGED <<token_counter, alloc, pending_commands, calls, borrow>>
       ELSE /\ token_counter <= MaxToken
            /\ BeginSend("stop")
            /\ ret' = ret
  /\ UNCHANGED <<impl, is_running, stdin, process, events, readers, child,
                 sessions, stdin_log, emitted, lastline>>
  /\ UNCHANGED hvars
  /\ UNCHANGED pvars
  /\ UNCHANGED gvars

\* Variant: the cleanup leaves the running flag set.
StopSessionCleanup_keepflag ==
  /\ borrow.kind = "stop"
  /\ borrow.pc = "cleanup"
  /\ child' = IF process # 0 THEN [child EXCEPT ![process] = "exited"] ELSE child
  /\ process' = 0
  /\ stdin' = 0
  /\ borrow' = NoBorrow
  /\ ret' = [op |-> "stop", res |-> Ok("", "")]
  /\ UNCHANGED <<impl, is_running, token_counter, pending_commands, events, calls,
                 readers, sessions, alloc, stdin_log, emitted, lastline>>
  /\ UNCHANGED hvars
  /\ UNCHANGED pvars
  /\ UNCHANGED gvars

\* stop_session after its gdb-exit command returned (with whatever result):
\* clear the flag, kill the child, release stdin.
StopSessionCleanup ==
  /\ borrow.kind = "stop"
  /\ borrow.pc = "cleanup"
  /\ is_running' = FALSE
  /\ child' = IF process # 0 THEN [child EXCEPT ![process] = "exited"] ELSE child
  /\ process' = 0
  /\ stdin' = 0
  /\ borrow' = NoBorrow
  /\ ret' = [op |-> "stop", res |-> Ok("", "")]
  /\ UNCHANGED <<impl, token_counter, pending_commands, events, calls, readers,
                 sessions, alloc, stdin_log, emitted, lastline>>
  /\ UNCHANGED hvars
  /\ UNCHANGED pvars
  /\ UNCHANGED gvars

\* -------------------------------------------------------------- specification
Next ==
  \/ SendCommand
  \/ SendWrite
  \/ SendReceive
  \/ Abandon
  \/ Setup
  \/ Stop
  \/ StartSession
  \/ StartSessionFinish
  \/ StopSession
  \/ StopSessionCleanup
  \/ \E s \in Sessions : ReaderCheck(s)
  \/ \E s \in Sessions : \E l \in Lines \cup {Eof} : ReaderRead(s, l)
  \/ \E s \in Sessions : ChildExit(s)

Spec == Init /\ [][Next]_vars

TypeOK ==
  /\ impl \in {"comm", "adapter"}
  /\ is_running \in BOOLEAN
  /\ stdin \in 0..MaxSessions
  /\ process \in 0..MaxSessions
  /\ token_counter \in 1..(MaxToken + 1)
  /\ pending_commands \subseteq DOMAIN calls
  /\ sessions \in 0..MaxSessions

\* =============================================================== event handler
\* GdbEventHandler (gdbadapter/src/events.rs) receiving what the stdout and
\* stderr readers send on the event channel.

\* ------------------------------------------------------------ what GDB emits
\* The frame of a *stopped record as GDB prints it (addr, func, file, line;
\* no level), the frame of a stack listing (with level), and one without addr.
FrameOfStop ==
  [NoFrameFields EXCEPT !.addr = StrV("0x08048564"), !.func = StrV("main"),
                        !.file = StrV("p.c"), !.line = NumV(<<"6", "8">>)]
FrameWithLevel == [FrameOfStop EXCEPT !.level = NumV(<<"0">>)]

ExitCodeTexts == {<<"0">>, <<"2">>, <<"0", "2">>, <<"-", "1">>,
                  <<"2", "1", "4", "7", "4", "8", "3", "6", "4", "8">>, <<"x">>}

StoppedResults ==
  {[NoResults EXCEPT !.reason = StrV("exited-normally")],
   [NoResults EXCEPT !.reason = StrV("exited-signalled"),
                     !.signal_name = StrV("SIGSEGV")],
   [NoResults EXCEPT !.reason = StrV("exited")],
   NoResults,
   [NoResults EXCEPT !.reason = ListV],
   [NoResults EXCEPT !.reason = StrV("signal-received"),
                     !.signal_name = StrV("SIGSEGV"),
                     !.signal_meaning = StrV("Segmentation fault"),
                     !.frame = TupleF(FrameOfStop)],
   [NoResults EXCEPT !.reason = StrV("signal-received")]}
    \cup {[NoResults EXCEPT !.reason = StrV("exited"), !.exit_code = NumV(cs)] :
            cs \in ExitCodeTexts}
    \cup {[NoResults EXCEPT !.reason = StrV("breakpoint-hit"), !.frame = f] :
            f \in {AbsentF, StringF, TupleF(FrameOfStop), TupleF(FrameWithLevel)}}

\* A line of stdout, by what the parser and the handler look at.
AsyncLine(class, results) ==
  [kind |-> "async", class |-> class, results |-> results, content |-> ""]
\* A stream line on the given channel with the given (decoded) text.
StreamLine(stream_type, content) ==
  [kind |-> "stream", class |-> stream_type, results |-> NoResults, content |-> content]
HandlerLines ==
  {AsyncLine("stopped", r) : r \in StoppedResults}
    \cup {AsyncLine(c, NoResults) :
            c \in {"running", "thread-group-exited", "thread-group-started",
                   "breakpoint-modified", "library-loaded", "download"}}
    \cup {StreamLine("Console", "hello"),
          [kind |-> "result", class |-> "done", results |-> NoResults, content |-> ""]}

StderrTexts == {"warning: Error disabling address space randomization"}

\* The class match of parse_async_record.
AsyncClassOf ==
  [c \in {"running", "stopped", "thread-group-added", "thread-group-removed",
          "thread-group-started", "thread-group-exited", "thread-created",
          "thread-exited", "thread-selected", "library-loaded", "library-unloaded",
          "traceframe-changed", "tsv-created", "tsv-deleted", "tsv-modified",
          "breakpoint-created", "breakpoint-modified", "breakpoint-deleted",
          "record-started", "record-stopped", "cmd-param-changed", "memory-changed"} |->
     CASE c = "running" -> "Running"
       [] c = "stopped" -> "Stopped"
       [] c = "thread-group-added" -> "ThreadGroupAdded"
       [] c = "thread-group-removed" -> "ThreadGroupRemoved"
       [] c = "thread-group-started" -> "ThreadGroupStarted"
       [] c = "thread-group-exited" -> "ThreadGroupExited"
       [] c = "thread-created" -> "ThreadCreated"
       [] c = "thread-exited" -> "ThreadExited"
       [] c = "thread-selected" -> "ThreadSelected"
       [] c = "library-loaded" -> "LibraryLoaded"
       [] c = "library-unloaded" -> "LibraryUnloaded"
       [] c = "traceframe-changed" -> "TraceframeChanged"
       [] c = "tsv-created" -> "TsvCreated"
       [] c = "tsv-deleted" -> "TsvDeleted"
       [] c = "tsv-modified" -> "TsvModified"
       [] c = "breakpoint-created" -> "BreakpointCreated"
       [] c = "breakpoint-modified" -> "BreakpointModified"
       [] c = "breakpoint-deleted" -> "BreakpointDeleted"
       [] c = "record-started" -> "RecordStarted"
       [] c = "record-stopped" -> "RecordStopped"
       [] c = "cmd-param-changed" -> "CmdParamChanged"
       [] OTHER -> "MemoryChanged"]

NoEvent == [ok |-> FALSE, event |-> ResultEvent("")]

\* parse_async_record: an unknown class is an error.
parse_async_record(line) ==
  IF line.class \in DOMAIN AsyncClassOf
    THEN [ok |-> TRUE, event |-> AsyncEvent(AsyncClassOf[line.class], line.results)]
    ELSE NoEvent

\* The event the stdout reader sends for a line that carries no token:
\* parse_gdb_output, then the Async, Stream and token-less Result arms of the
\* router.
stdout_event(line) ==
  CASE line.kind = "async" -> parse_async_record(line)
    [] line.kind = "stream" -> [ok |-> TRUE, event |-> StreamEvent(line.class, line.content)]
    [] OTHER -> [ok |-> TRUE, event |-> ResultEvent(line.class)]

\* The event the stderr reader sends for a non-blank line.
stderr_event(text) == StreamEvent("Log", "GDB stderr: " \o text)

\* ----------------------------------------------------------- the mpsc channel
\* Variant: a channel that hands out the newest message first.
mpsc_send_lifo(q, m) == <<m>> \o q

\* UnboundedSender::send: the message goes behind everything sent before.
mpsc_send(q, m) == Append(q, m)

\* ------------------------------------------------------- handle_async_record
\* Variant: a running record keeps the frame and reason of the last stop.
running_effect_keep(info) == [info EXCEPT !.state = DebugState("Running")]

\* AsyncClass::Running arm.
running_effect(info) ==
  [info EXCEPT !.state = DebugState("Running"), !.current_frame = NoneFrame,
               !.reason = NoneStr]

\* Variant: the exit code of an `exited` stop is not stored.
exited_effect_nocode(info, results) ==
  IF as_string(results.exit_code) /\ parse_i32(results.exit_code.chars).ok
    THEN [info EXCEPT !.state = Exited(parse_i32(results.exit_code.chars).v)]
    ELSE info

\* The "exited" arm of the reason match.
exited_effect(info, results) ==
  IF as_string(results.exit_code) /\ parse_i32(results.exit_code.chars).ok
    THEN LET code == parse_i32(results.exit_code.chars).v IN
         [info EXCEPT !.state = Exited(code), !.exit_code = Some(code)]
    ELSE info

\* The "signal-received" arm of the reason match.
signal_effect(info, results) ==
  LET i1 == IF as_string(results.signal_name)
              THEN [info EXCEPT !.signal_name = SomeStr(results.signal_name.s)]
              ELSE info
  IN IF as_string(results.signal_meaning)
       THEN [i1 EXCEPT !.signal_meaning = SomeStr(results.signal_meaning.s)]
       ELSE i1

\* `if let Some(reason_value) = record.results.get("reason")` and its body.
reason_effect(info, results) ==
  IF ~as_string(results.reason) THEN info
  ELSE LET reason == results.reason.s
           i1 == [info EXCEPT !.reason = SomeStr(reason)]
       IN CASE reason = "exited-normally" ->
                 [i1 EXCEPT !.state = Exited(0), !.exit_code = Some(0)]
            [] reason = "exited" -> exited_effect(i1, results)
            [] reason = "signal-received" -> signal_effect(i1, results)
            [] OTHER -> i1

\* `if let Some(frame_value) = record.results.get("frame")` and its body.
frame_effect(info, results) ==
  IF results.frame.t = "tuple" /\ from_tuple(results.frame.tuple).ok
    THEN [info EXCEPT !.current_frame = SomeFrame(from_tuple(results.frame.tuple).frame)]
    ELSE info

\* AsyncClass::Stopped arm.
stopped_effect(info, results) ==
  frame_effect(reason_effect([info EXCEPT !.state = DebugState("Paused")], results),
               results)

\* Variant: a process that already exited keeps its state.
thread_group_exited_effect_once(info) ==
  IF info.state.k = "Exited" THEN info ELSE [info EXCEPT !.state = Exited(0)]

\* AsyncClass::ThreadGroupExited arm.
thread_group_exited_effect(info) == [info EXCEPT !.state = Exited(0)]

\* Variant: every async record counts as a state change.
state_changed_always(class) == TRUE

\* The arms that set state_changed.
state_changed(class) == class \in {"Running", "Stopped", "ThreadGroupExited"}

handle_async_record(info, record) ==
  CASE record.class = "Running" -> running_effect(info)
    [] record.class = "Stopped" -> stopped_effect(info, record.results)
    [] record.class = "ThreadGroupExited" -> thread_group_exited_effect(info)
    [] OTHER -> info

\* `for callback in &self.state_change_callbacks { callback(&info) }`
notify_state(sn, info) ==
  IF state_change_callbacks = 0 THEN sn
  ELSE [n |-> sn.n + state_change_callbacks, info |-> info]

\* ------------------------------------------------------ handle_stream_record
ConsoleLimit == 1000

\* Variant: the buffer is never drained.
console_push_nodrain(out, record) ==
  Append(out, [content |-> record.content, stream_type |-> record.class])

\* console_output.push(output) and the drain that keeps the last entries.
console_push(out, record) ==
  LET pushed == Append(out, [content |-> record.content, stream_type |-> record.class])
      len == Len(pushed)
  IN IF len > ConsoleLimit THEN SubSeq(pushed, len - ConsoleLimit + 1, len) ELSE pushed

\* get_console_output(limit): the whole buffer in arrival order for None,
\* the newest `limit` entries, newest first, for Some(limit).
get_console_output(out, limit) ==
  IF ~limit.some THEN out
  ELSE LET k == IF limit.v < Len(out) THEN limit.v ELSE Len(out) IN
       [i \in 1..k |-> out[Len(out) + 1 - i]]

\* The output observers are told apart by the order of their registration.
\* Variant: a newly registered observer takes the place of the others.
on_output_replace(cbs) == <<Len(cbs) + 1>>

\* on_output(callback): self.output_callbacks.push(Box::new(callback)).
on_output(cbs) == Append(cbs, Len(cbs) + 1)

\* `for callback in &self.output_callbacks { callback(&output) }` for the
\* output made of the stream event m.
notify_output(log, cbs, m) ==
  log \o [i \in 1..Len(cbs) |-> [obs |-> cbs[i], src |-> m.src, n |-> m.n]]

\* ------------------------------------------------------------------- actions
Inputs == sent.stdout + sent.stderr + lifecycle_calls

\* The stdout reader has read a line and routes it: a line that parses to an
\* async, stream or token-less result record is sent on the event channel;
\* one that does not parse is logged and dropped.
StdoutSend(line) ==
  /\ Inputs < MaxEvents
  /\ LET r == stdout_event(line) IN
     IF r.ok
       THEN /\ sent' = [sent EXCEPT !.stdout = @ + 1]
            /\ event_channel' =
                 mpsc_send(event_channel,
                           [event |-> r.event, src |-> "stdout", n |-> sent.stdout + 1])
       ELSE UNCHANGED <<sent, event_channel>>
  /\ UNCHANGED <<handled, execution_info, state_change_callbacks, state_notified,
                 console_output, output_notified, output_callbacks, output_log,
                 lifecycle_calls>>
  /\ UNCHANGED cvars
  /\ UNCHANGED pvars
  /\ UNCHANGED gvars

\* The stderr reader has read a non-blank line.
StderrSend(text) ==
  /\ Inputs < MaxEvents
  /\ sent' = [sent EXCEPT !.stderr = @ + 1]
  /\ event_channel' =
       mpsc_send(event_channel,
                 [event |-> stderr_event(text), src |-> "stderr", n |-> sent.stderr + 1])
  /\ UNCHANGED <<handled, execution_info, state_change_callbacks, state_notified,
                 console_output, output_notified, output_callbacks, output_log,
                 lifecycle_calls>>
  /\ UNCHANGED cvars
  /\ UNCHANGED pvars
  /\ UNCHANGED gvars

\* One turn of GdbEventHandler::run: recv() yields the oldest event and
\* handle_event dispatches on its kind.
HandleEvent ==
  /\ event_channel # <<>>
  /\ LET m == Head(event_channel)
         e == m.event IN
     /\ event_channel' = Tail(event_channel)
     /\ handled' = Append(handled, m)
     /\ CASE e.kind = "Async" ->
               LET info == handle_async_record(execution_info, e) IN
               /\ execution_info' = info
               /\ state_notified' = IF state_changed(e.class)
                                      THEN notify_state(state_notified, info)
                                      ELSE state_notified
               /\ UNCHANGED <<console_output, output_notified, output_log>>
          [] e.kind = "Stream" ->
               /\ console_output' = console_push(console_output, e)
               /\ output_notified' = output_notified + 1
               /\ output_log' = notify_output(output_log, output_callbacks, m)
               /\ UNCHANGED <<execution_info, state_notified>>
          [] OTHER ->
               UNCHANGED <<execution_info, state_notified, console_output,
                           output_notified, output_log>>
  /\ UNCHANGED <<sent, state_change_callbacks, output_callbacks, lifecycle_calls>>
  /\ UNCHANGED cvars
  /\ UNCHANGED pvars
  /\ UNCHANGED gvars

\* A caller registers one more output observer between two events.
OnOutput ==
  /\ Len(output_callbacks) < MaxOutputObservers
  /\ output_callbacks' = on_output(output_callbacks)
  /\ UNCHANGED <<event_channel, sent, handled, execution_info, state_change_callbacks,
                 state_notified, console_output, output_notified, output_log,
                 lifecycle_calls>>
  /\ UNCHANGED cvars
  /\ UNCHANGED pvars
  /\ UNCHANGED gvars

LifecycleStates ==
  {DebugState("Stopped"), DebugState("Starting"), DebugState("Loaded"),
   DebugState("Running"), DebugState("Paused"), DebugState("Error")}

\* GdbEventHandler::set_execution_state(state).
SetExecutionState(state) ==
  /\ Inputs < MaxEvents
  /\ lifecycle_calls' = lifecycle_calls + 1
  /\ IF execution_info.state # state
       THEN /\ execution_info' = [execution_info EXCEPT !.state = state]
            /\ state_notified' = notify_state(state_notified, execution_info')
       ELSE UNCHANGED <<execution_info, state_notified>>
  /\ UNCHANGED <<event_channel, sent, handled, state_change_callbacks,
                 console_output, output_notified, output_callbacks, output_log>>
  /\ UNCHANGED cvars
  /\ UNCHANGED pvars
  /\ UNCHANGED gvars

\* A handler with up to MaxObservers state observers on a fresh channel; the
\* communication core is left as constructed.
HandlerInit ==
  /\ impl = "comm"
  /\ is_running = FALSE
  /\ stdin = 0
  /\ process = 0
  /\ token_counter = 1
  /\ pending_commands = {}
  /\ events = <<>>
  /\ calls = <<>>
  /\ borrow = NoBorrow
  /\ readers = [s \in Sessions |-> NoReader]
  /\ child = [s \in Sessions |-> "none"]
  /\ sessions = 0
  /\ alloc = <<>>
  /\ stdin_log = <<>>
  /\ emitted = 0
  /\ lastline = NoLine
  /\ ret = [op |-> "new", res |-> NoRet]
  /\ \E k \in 0..MaxObservers : HandlerNew(k)
  /\ NoDecoding
  /\ GuiNew

HandlerNext ==
  \/ \E line \in HandlerLines : StdoutSend(line)
  \/ \E text \in StderrTexts : StderrSend(text)
  \/ HandleEvent
  \/ \E state \in LifecycleStates : SetExecutionState(state)
  \/ OnOutput

HandlerSpec == HandlerInit /\ [][HandlerNext]_vars

\* ============================================================ the MI parser
\* gdbadapter/src/parser.rs on the text of a line.  A text is handled as the
\* sequence of its characters.
Chars(s) == [i \in 1..Len(s) |-> SubSeq(s, i, i)]

RECURSIVE Str(_)
Str(cs) == IF cs = <<>> THEN "" ELSE Head(cs) \o Str(Tail(cs))

Range(f) == {f[i] : i \in DOMAIN f}
Digits == Range(Chars("0123456789"))
\* char::is_alphanumeric, for the ASCII characters of the texts drawn here.
Alphanumeric ==
  Digits \cup Range(Chars("abcdefghijklmnopqrstuvwxyzABCDEFGHIJKLMNOPQRSTUVWXYZ"))
\* char::is_whitespace, as used by str::trim.
Whitespace == {" ", "\t", "\r", "\n"}

\* types::Value
MiString(s) == [t |-> "string", s |-> s, items |-> <<>>, fields |-> <<>>]
MiList(items) == [t |-> "list", s |-> "", items |-> items, fields |-> <<>>]
MiTuple(fields) == [t |-> "tuple", s |-> "", items |-> <<>>, fields |-> fields]

\* HashMap<String, Value> as the sequence of its entries in insertion order.
\* insert replaces the value of a key that is present.
map_insert(m, key, value) ==
  SelectSeq(m, LAMBDA e : e.key # key) \o <<[key |-> key, value |-> value]>>
map_has(m, key) == \E i \in 1..Len(m) : m[i].key = key
map_get(m, key) == m[CHOOSE i \in 1..Len(m) : m[i].key = key].value

\* Result<Value, String> together with what is left of the input.
POk(val, rest) == [ok |-> TRUE, val |-> val, rest |-> rest, err |-> ""]
PErr(msg) == [ok |-> FALSE, val |-> MiString(""), rest |-> <<>>, err |-> msg]

\* The character an escape denotes (shared by parse_value and parse_c_string).
Unescape(ch) ==
  CASE ch = "n" -> "\n"
    [] ch = "t" -> "\t"
    [] ch = "r" -> "\r"
    [] ch = "\\" -> "\\"
    [] ch = "\"" -> "\""
    [] OTHER -> "\\" \o ch

\* parse_identifier: the longest prefix of [alphanumeric _ -]; empty is an error.
RECURSIVE identifier_len(_)
identifier_len(cs) ==
  IF cs # <<>> /\ (Head(cs) \in Alphanumeric \/ Head(cs) \in {"_", "-"})
    THEN 1 + identifier_len(Tail(cs))
    ELSE 0

parse_identifier(cs) ==
  LET n == identifier_len(cs) IN
  IF n = 0 THEN [ok |-> FALSE, id |-> "", rest |-> cs]
  ELSE [ok |-> TRUE, id |-> Str(SubSeq(cs, 1, n)), rest |-> SubSeq(cs, n + 1, Len(cs))]

\* Variant: an escaped quote ends the string.
RECURSIVE quoted_body_noescquote(_, _, _)
quoted_body_noescquote(cs, acc, escaped) ==
  IF cs = <<>> THEN POk(MiString(acc), <<>>)
  ELSE LET ch == Head(cs) IN
       IF ch = "\"" THEN POk(MiString(acc), Tail(cs))
       ELSE IF escaped THEN quoted_body_noescquote(Tail(cs), acc \o Unescape(ch), FALSE)
       ELSE IF ch = "\\" THEN quoted_body_noescquote(Tail(cs), acc, TRUE)
       ELSE quoted_body_noescquote(Tail(cs), acc \o ch, FALSE)

\* parse_value, string branch, after the opening quote: the loop over
\* chars.next() with its `escaped` flag.  The end of the input ends the
\* string like a closing quote does.
RECURSIVE quoted_body(_, _, _)
quoted_body(cs, acc, escaped) ==
  IF cs = <<>> THEN POk(MiString(acc), <<>>)
  ELSE LET ch == Head(cs) IN
       IF escaped THEN quoted_body(Tail(cs), acc \o Unescape(ch), FALSE)
       ELSE IF ch = "\\" THEN quoted_body(Tail(cs), acc, TRUE)
       ELSE IF ch = "\"" THEN POk(MiString(acc), Tail(cs))
       ELSE quoted_body(Tail(cs), acc \o ch, FALSE)

\* parse_value, default branch: up to a comma, bracket, brace or space.
RECURSIVE bare_len(_)
bare_len(cs) ==
  IF cs # <<>> /\ Head(cs) \notin {",", "]", "}", " "}
    THEN 1 + bare_len(Tail(cs))
    ELSE 0

skip_comma(cs) == IF cs # <<>> /\ Head(cs) = "," THEN Tail(cs) ELSE cs

RECURSIVE parse_value(_), list_items(_), tuple_fields(_)

\* parse_value, list branch, after the opening bracket.  The argument is
\* the state of the loop: what is left of the input and the Vec built so far.
list_items(st) ==
  IF st.cs = <<>> THEN PErr("Expected closing bracket")
  ELSE IF Head(st.cs) = "]" THEN POk(MiList(st.acc), Tail(st.cs))
  ELSE LET v == parse_value(st.cs) IN
       IF ~v.ok THEN v
       ELSE list_items([cs |-> skip_comma(v.rest), acc |-> Append(st.acc, v.val)])

\* parse_value, tuple branch, after the opening brace.  The argument is the
\* state of the loop: what is left of the input and the map built so far.
tuple_fields(st) ==
  IF st.cs = <<>> THEN PErr("Expected closing brace")
  ELSE IF Head(st.cs) = "}" THEN POk(MiTuple(st.acc), Tail(st.cs))
  ELSE LET k == parse_identifier(st.cs) IN
       IF ~k.ok THEN PErr("Empty identifier")
       ELSE IF k.rest = <<>> \/ Head(k.rest) # "=" THEN PErr("Expected '=' in tuple")
       ELSE LET v == parse_value(Tail(k.rest)) IN
            IF ~v.ok THEN v
            ELSE tuple_fields([cs |-> skip_comma(v.rest),
                               acc |-> map_insert(st.acc, k.id, v.val)])

parse_value(cs) ==
  IF cs # <<>> /\ Head(cs) = "\"" THEN quoted_body(Tail(cs), "", FALSE)
  ELSE IF cs # <<>> /\ Head(cs) = "[" THEN list_items([cs |-> Tail(cs), acc |-> <<>>])
  ELSE IF cs # <<>> /\ Head(cs) = "{" THEN tuple_fields([cs |-> Tail(cs), acc |-> <<>>])
  ELSE LET n == bare_len(cs) IN
       IF n = 0 THEN PErr("Empty value")
       ELSE POk(MiString(Str(SubSeq(cs, 1, n))), SubSeq(cs, n + 1, Len(cs)))

RECURSIVE skip_spaces(_)
skip_spaces(cs) == IF cs # <<>> /\ Head(cs) = " " THEN skip_spaces(Tail(cs)) ELSE cs

\* parse_results: key=value pairs, each optionally followed by a comma.  The
\* argument is the state of the loop: what is left of the input and the map
\* built so far.
RECURSIVE results_loop(_)
results_loop(st) ==
  LET c1 == skip_spaces(st.cs) IN
  IF c1 = <<>> THEN [ok |-> TRUE, map |-> st.acc, err |-> ""]
  ELSE LET k == parse_identifier(c1) IN
       IF ~k.ok THEN [ok |-> FALSE, map |-> <<>>, err |-> "Empty identifier"]
       ELSE IF k.rest = <<>> \/ Head(k.rest) # "="
         THEN [ok |-> FALSE, map |-> <<>>, err |-> "Expected '=' after key"]
       ELSE LET v == parse_value(Tail(k.rest)) IN
            IF ~v.ok THEN [ok |-> FALSE, map |-> <<>>, err |-> v.err]
            ELSE results_loop([cs |-> skip_comma(v.rest),
                               acc |-> map_insert(st.acc, k.id, v.val)])

parse_results(cs) == results_loop([cs |-> cs, acc |-> <<>>])

\* parse_c_string, the match on the character after a backslash.
c_string_escape(ch) ==
  CASE ch = "n" -> "\n"
    [] ch = "t" -> "\t"
    [] ch = "r" -> "\r"
    [] ch = "\\" -> "\\"
    [] ch = "\"" -> "\""
    [] OTHER -> "\\" \o ch

\* parse_c_string: the text between the first and the last character, which
\* must both be quotes, with escapes decoded; a backslash at the very end is
\* kept.
RECURSIVE c_string_body(_, _)
c_string_body(cs, acc) ==
  IF cs = <<>> THEN acc
  ELSE IF Head(cs) = "\\"
    THEN IF Tail(cs) = <<>> THEN acc \o "\\"
         ELSE c_string_body(Tail(Tail(cs)), acc \o c_string_escape(Head(Tail(cs))))
    ELSE c_string_body(Tail(cs), acc \o Head(cs))

parse_c_string(cs) ==
  IF Len(cs) < 2 \/ Head(cs) # "\"" \/ cs[Len(cs)] # "\""
    THEN NoneStr
    ELSE SomeStr(c_string_body(SubSeq(cs, 2, Len(cs) - 1), ""))

\* ----------------------------------------------------------- line by line
\* Result<GdbOutput, String>
OutErr(msg) ==
  [ok |-> FALSE, kind |-> "Err", err |-> msg, token |-> None, class |-> "",
   results |-> <<>>, content |-> ""]
OutResult(token, class, results) ==
  [ok |-> TRUE, kind |-> "Result", err |-> "", token |-> token, class |-> class,
   results |-> results, content |-> ""]
OutAsync(class, results) ==
  [ok |-> TRUE, kind |-> "Async", err |-> "", token |-> None, class |-> class,
   results |-> results, content |-> ""]
OutStream(stream_type, content) ==
  [ok |-> TRUE, kind |-> "Stream", err |-> "", token |-> None, class |-> stream_type,
   results |-> <<>>, content |-> content]

RECURSIVE trim_start(_)
trim_start(cs) ==
  IF cs # <<>> /\ Head(cs) \in Whitespace THEN trim_start(Tail(cs)) ELSE cs
RECURSIVE trim_end(_)
trim_end(cs) ==
  IF cs # <<>> /\ cs[Len(cs)] \in Whitespace THEN trim_end(SubSeq(cs, 1, Len(cs) - 1)) ELSE cs
\* str::trim
trim(cs) == trim_end(trim_start(cs))

\* str::find(','): the index of the first comma, 0 if there is none.
RECURSIVE find_comma(_, _)
find_comma(cs, i) ==
  IF i > Len(cs) THEN 0 ELSE IF cs[i] = "," THEN i ELSE find_comma(cs, i + 1)

StreamPrefix == [c \in {"~", "@", "&"} |->
                   CASE c = "~" -> "Console" [] c = "@" -> "Target" [] OTHER -> "Log"]

\* parse_stream_record: None unless the line has at least two characters and
\* starts with ~, @ or &; the content is the decoded C string, or the raw
\* rest of the line when that is no C string.
parse_stream_record(cs) ==
  IF Len(cs) < 2 \/ Head(cs) \notin DOMAIN StreamPrefix THEN [some |-> FALSE, v |-> OutErr("")]
  ELSE LET content == parse_c_string(Tail(cs)) IN
       [some |-> TRUE,
        v |-> OutStream(StreamPrefix[Head(cs)],
                        IF content.some THEN content.v ELSE Str(Tail(cs)))]

\* parse_async_record on the text of the line.
parse_async_record_chars(cs) ==
  IF cs = <<>> \/ Head(cs) \notin {"*", "="} THEN OutErr("Invalid async record prefix")
  ELSE LET rest == Tail(cs)
           comma == find_comma(rest, 1)
           class_str == Str(IF comma = 0 THEN rest ELSE SubSeq(rest, 1, comma - 1))
       IN IF class_str \notin DOMAIN AsyncClassOf THEN OutErr("Unknown async class")
          ELSE IF comma = 0 THEN OutAsync(AsyncClassOf[class_str], <<>>)
          ELSE LET r == parse_results(SubSeq(rest, comma + 1, Len(rest))) IN
               IF r.ok THEN OutAsync(AsyncClassOf[class_str], r.map) ELSE OutErr(r.err)

RECURSIVE digits_len(_)
digits_len(cs) ==
  IF cs # <<>> /\ Head(cs) \in Digits THEN 1 + digits_len(Tail(cs)) ELSE 0

ResultClasses == {"done", "running", "connected", "error", "exit"}

\* parse_result_record on the text of the line: the regular expression
\* ^(\d+)?\^(done|running|connected|error|exit)(,(.*))?$ and what is made of
\* its groups.
parse_result_record_chars(cs) ==
  LET n == digits_len(cs)
      after == SubSeq(cs, n + 1, Len(cs)) IN
  IF after = <<>> \/ Head(after) # "^" THEN OutErr("Invalid result record format")
  ELSE LET rest == Tail(after)
           comma == find_comma(rest, 1)
           class_str == Str(IF comma = 0 THEN rest ELSE SubSeq(rest, 1, comma - 1))
           tok == parse_u32(SubSeq(cs, 1, n))
           token == IF n > 0 /\ tok.ok THEN Some(tok.v) ELSE None
       IN IF class_str \notin ResultClasses THEN OutErr("Invalid result record format")
          ELSE IF comma = 0 THEN OutResult(token, class_str, <<>>)
          ELSE LET r == parse_results(SubSeq(rest, comma + 1, Len(rest))) IN
               IF r.ok THEN OutResult(token, class_str, r.map) ELSE OutErr(r.err)

\* parse_gdb_output on the text of the line.
parse_gdb_output_chars(text) ==
  LET line == trim(text) IN
  IF line = <<>> \/ line = Chars("(gdb)") THEN OutErr("Empty or prompt line")
  ELSE IF parse_stream_record(line).some THEN parse_stream_record(line).v
  ELSE IF Head(line) \in {"*", "="} THEN parse_async_record_chars(line)
  ELSE IF \E i \in 1..Len(line) : line[i] = "^" THEN parse_result_record_chars(line)
  ELSE OutErr("Unknown GDB/MI output format")

\* ------------------------------------------------------------------ StopReason
StopReasons ==
  {"BreakpointHit", "WatchpointTrigger", "ReadWatchpointTrigger",
   "AccessWatchpointTrigger", "FunctionFinished", "LocationReached",
   "WatchpointScope", "EndSteppingRange", "ExitedSignalled", "Exited",
   "ExitedNormally", "SignalReceived", "SolibEvent", "Fork", "Vfork",
   "SyscallEntry", "SyscallReturn", "Exec", "NoHistory"}

\* StopReason::from_str
from_str(s) ==
  CASE s = "breakpoint-hit" -> SomeStr("BreakpointHit")
    [] s = "watchpoint-trigger" -> SomeStr("WatchpointTrigger")
    [] s = "read-watchpoint-trigger" -> SomeStr("ReadWatchpointTrigger")
    [] s = "access-watchpoint-trigger" -> SomeStr("AccessWatchpointTrigger")
    [] s = "function-finished" -> SomeStr("FunctionFinished")
    [] s = "location-reached" -> SomeStr("LocationReached")
    [] s = "watchpoint-scope" -> SomeStr("WatchpointScope")
    [] s = "end-stepping-range" -> SomeStr("EndSteppingRange")
    [] s = "exited-signalled" -> SomeStr("ExitedSignalled")
    [] s = "exited" -> SomeStr("Exited")
    [] s = "exited-normally" -> SomeStr("ExitedNormally")
    [] s = "signal-received" -> SomeStr("SignalReceived")
    [] s = "solib-event" -> SomeStr("SolibEvent")
    [] s = "fork" -> SomeStr("Fork")
    [] s = "vfork" -> SomeStr("Vfork")
    [] s = "syscall-entry" -> SomeStr("SyscallEntry")
    [] s = "syscall-return" -> SomeStr("SyscallReturn")
    [] s = "exec" -> SomeStr("Exec")
    [] s = "no-history" -> SomeStr("NoHistory")
    [] OTHER -> NoneStr

\* Variant: two of the exit reasons print each other's text.
to_string_swapped(r) ==
  CASE r = "Exited" -> "exited-normally"
    [] r = "ExitedNormally" -> "exited"
    [] r = "ExitedSignalled" -> "exited-signalled"
    [] r = "BreakpointHit" -> "breakpoint-hit"
    [] r = "SignalReceived" -> "signal-received"
    [] OTHER -> "no-history"

\* impl Display for StopReason
to_string(r) ==
  CASE r = "BreakpointHit" -> "breakpoint-hit"
    [] r = "WatchpointTrigger" -> "watchpoint-trigger"
    [] r = "ReadWatchpointTrigger" -> "read-watchpoint-trigger"
    [] r = "AccessWatchpointTrigger" -> "access-watchpoint-trigger"
    [] r = "FunctionFinished" -> "function-finished"
    [] r = "LocationReached" -> "location-reached"
    [] r = "WatchpointScope" -> "watchpoint-scope"
    [] r = "EndSteppingRange" -> "end-stepping-range"
    [] r = "ExitedSignalled" -> "exited-signalled"
    [] r = "Exited" -> "exited"
    [] r = "ExitedNormally" -> "exited-normally"
    [] r = "SignalReceived" -> "signal-received"
    [] r = "SolibEvent" -> "solib-event"
    [] r = "Fork" -> "fork"
    [] r = "Vfork" -> "vfork"
    [] r = "SyscallEntry" -> "syscall-entry"
    [] r = "SyscallReturn" -> "syscall-return"
    [] r = "Exec" -> "exec"
    [] r = "NoHistory" -> "no-history"

\* --------------------------------------------------- commands on a reply line
\* What send_command hands its caller when GDB answers with the given line:
\* a line that does not parse is only logged and a record that is no result
\* with a token goes to the event stream, so the caller keeps waiting; a
\* result of class error is an error; any other result is returned.
NoReply == [st |-> "NoReply", err |-> "", results |-> <<>>]
reply_of(out) ==
  IF ~out.ok \/ out.kind # "Result" \/ ~out.token.some THEN NoReply
  ELSE IF out.class = "error" THEN [st |-> "Err", err |-> "GdbError", results |-> <<>>]
  ELSE [st |-> "Ok", err |-> "", results |-> out.results]
send_command_reply(text) == reply_of(parse_gdb_output_chars(Chars(text)))

\* tuple.get(key) as the text or the number the decoders look for.
text_field(m, key) ==
  IF ~map_has(m, key) THEN AbsentV
  ELSE IF map_get(m, key).t = "string" THEN StrV(map_get(m, key).s) ELSE ListV
num_field(m, key) ==
  IF ~map_has(m, key) THEN AbsentN
  ELSE IF map_get(m, key).t = "string" THEN NumV(Chars(map_get(m, key).s))
  ELSE [t |-> "list", chars |-> <<>>]

frame_fields(m) ==
  [level |-> num_field(m, "level"), addr |-> text_field(m, "addr"),
   func |-> text_field(m, "func"), file |-> text_field(m, "file"),
   fullname |-> text_field(m, "fullname"), line |-> num_field(m, "line")]

\* Breakpoint::from_tuple: number is required; enabled is whether the text
\* is "y"; times counts from 0 when absent; the rest is optional.
breakpoint_from_tuple(m) ==
  IF ~opt_u32(num_field(m, "number")).some THEN [ok |-> FALSE, err |-> "MissingField(number)"]
  ELSE [ok |-> TRUE, err |-> "",
        v |-> [number |-> opt_u32(num_field(m, "number")).v,
               enabled |-> as_string(text_field(m, "enabled")) /\ text_field(m, "enabled").s = "y",
               addr |-> opt_string(text_field(m, "addr")),
               func |-> opt_string(text_field(m, "func")),
               file |-> opt_string(text_field(m, "file")),
               fullname |-> opt_string(text_field(m, "fullname")),
               line |-> opt_u32(num_field(m, "line")),
               times |-> IF opt_u32(num_field(m, "times")).some
                           THEN opt_u32(num_field(m, "times")).v ELSE 0]]

\* The loop of break_list and stack_list_frames over the elements of a list:
\* an element that is no tuple is skipped, the first tuple that does not
\* decode ends the call with its error.
RECURSIVE decode_breakpoints(_, _)
decode_breakpoints(items, acc) ==
  IF items = <<>> THEN [st |-> "Ok", err |-> "", list |-> acc]
  ELSE IF Head(items).t # "tuple" THEN decode_breakpoints(Tail(items), acc)
  ELSE LET b == breakpoint_from_tuple(Head(items).fields) IN
       IF ~b.ok THEN [st |-> "Err", err |-> b.err, list |-> <<>>]
       ELSE decode_breakpoints(Tail(items), Append(acc, b.v))

RECURSIVE decode_frames(_, _)
decode_frames(items, acc) ==
  IF items = <<>> THEN [st |-> "Ok", err |-> "", list |-> acc]
  ELSE IF Head(items).t # "tuple" THEN decode_frames(Tail(items), acc)
  ELSE LET f == from_tuple(frame_fields(Head(items).fields)) IN
       IF ~f.ok THEN [st |-> "Err", err |-> "MissingField", list |-> <<>>]
       ELSE decode_frames(Tail(items), Append(acc, f.frame))

\* The BreakpointTable.body of a results map, if there is one.
has_body(results) ==
  /\ map_has(results, "BreakpointTable")
  /\ map_get(results, "BreakpointTable").t = "tuple"
  /\ map_has(map_get(results, "BreakpointTable").fields, "body")
body_of(results) == map_get(map_get(results, "BreakpointTable").fields, "body")

\* GdbCommands::break_list, from the `?` on what send_command returned.
break_list_of(reply) ==
  IF reply.st # "Ok" THEN [st |-> reply.st, err |-> reply.err, list |-> <<>>]
  ELSE IF ~has_body(reply.results)
    THEN [st |-> "Err", err |-> "MissingField(BreakpointTable.body)", list |-> <<>>]
  ELSE IF body_of(reply.results).t = "list"
    THEN decode_breakpoints(body_of(reply.results).items, <<>>)
  ELSE [st |-> "Ok", err |-> "", list |-> <<>>]

\* GdbCommands::break_list on the reply to break-list.
break_list(text) == break_list_of(send_command_reply(text))

\* GdbCommands::stack_list_frames, from the `?` on what send_command
\* returned.
stack_list_frames_of(reply) ==
  IF reply.st # "Ok" THEN [st |-> reply.st, err |-> reply.err, list |-> <<>>]
  ELSE IF ~map_has(reply.results, "stack")
    THEN [st |-> "Err", err |-> "MissingField(stack)", list |-> <<>>]
  ELSE IF map_get(reply.results, "stack").t = "list"
    THEN decode_frames(map_get(reply.results, "stack").items, <<>>)
  ELSE [st |-> "Ok", err |-> "", list |-> <<>>]

\* GdbCommands::stack_list_frames on the reply to stack-list-frames.
stack_list_frames(text) == stack_list_frames_of(send_command_reply(text))

\* Replies to break-list, as GDB writes them and otherwise.
BreakListReplies ==
  {"1^done",
   "1^done,BreakpointTable={nr_rows=\"0\"}",
   "1^done,BreakpointTable=\"none\"",
   "1^done,BreakpointTable={body=\"none\"}",
   "1^done,BreakpointTable={nr_rows=\"0\",body=[]}",
   "1^done,BreakpointTable={body=[{number=\"1\",enabled=\"y\",line=\"4\",func=\"main\"},{number=\"2\",enabled=\"n\",times=\"3\"}]}",
   "1^done,BreakpointTable={body=[{number=\"2\"},\"x\",{number=\"1\"}]}",
   "1^done,BreakpointTable={body=[{number=\"1\"},{enabled=\"y\"}]}",
   "1^done,BreakpointTable={body=[bkpt={number=\"1\",enabled=\"y\"}]}",
   "1^error,msg=\"No symbol table\"",
   "^done,BreakpointTable={body=[]}"}

\* Replies to stack-list-frames.
StackReplies ==
  {"1^done,stack=[frame={level=\"0\",addr=\"0x1\"},frame={level=\"1\",addr=\"0x2\"}]",
   "1^done,stack=[{level=\"0\",addr=\"0x1\"},{level=\"1\",addr=\"0x2\"}]",
   "1^done,stack=[{frame={level=\"0\",addr=\"0x1\"}},{frame={level=\"1\",addr=\"0x2\"}}]",
   "1^done,stack=[{level=\"0\",addr=\"0x1\",func=\"main\",line=\"7\"}]",
   "1^done,stack=[]",
   "1^done,stack=\"none\"",
   "1^done",
   "1^error,msg=\"No stack\""}

\* Texts handed to StopReason::from_str.
ReasonTexts ==
  {to_string(r) : r \in StopReasons}
    \cup {"", "Exited", "EXITED", "exited ", "breakpoint_hit", "breakpoint", "signal"}

\* ------------------------------------------------- decoders applied to inputs
\* The length of the generated lines and of the generated quoted strings.
MaxLineLen == 3
MaxStrLen == 3

SeqsUpTo(S, n) == UNION {[1..k -> S] : k \in 0..n}

\* The characters the parser branches on, with one letter, one digit and one
\* space standing for the rest.
LineAlphabet == {"~", "*", "+", "^", "\"", "\\", "[", "{", "}", ",", "=", "a", "1", " "}

\* Lines GDB writes, and lines it does not.
KnownLines ==
  {"~\"hi\\n\"", "@\"out\"", "&\"warn\"", "~x", "~",
   "*stopped,reason=\"exited\",exit-code=\"3\"", "*running,thread-id=\"all\"",
   "=thread-group-added,id=\"i1\"", "=breakpoint-created", "*bogus-class",
   "+download,section=\".text\"", "+download",
   "^done", "12^done,value=\"3\"", "^running", "1^connected",
   "5^error,msg=\"No symbol\"", "^exit", "^done,", "^bogus", "7^", "x1^done",
   "^done,bkpt={number=\"1\",line=\"4\"}", "^done,v=[\"a\",\"b\"]", "^done,v=[]",
   "hello", "(gdb)", " (gdb) ", "", "  ", "  ^done  "}

ParseInputs == KnownLines \cup {Str(cs) : cs \in SeqsUpTo(LineAlphabet, MaxLineLen)}

\* The bodies of quoted strings: what stands between the two quotes.
StrAlphabet == {"a", "n", "t", "\\", "\""}
QuotedBodies == {Str(cs) : cs \in SeqsUpTo(StrAlphabet, MaxStrLen)}

\* parse_gdb_output applied to one line.
ParseLine ==
  /\ dec_in.fn = "parse_gdb_output"
  /\ ~dec_done
  /\ dec_out' = parse_gdb_output_chars(Chars(dec_in.arg))
  /\ dec_done' = TRUE
  /\ UNCHANGED <<dec_in, cvars, hvars, gvars>>

\* One quoted string parsed as the payload of a stream record and as the
\* value of a result.
ParseQuoted ==
  /\ dec_in.fn = "quoted"
  /\ ~dec_done
  /\ dec_out' = [stream |-> parse_gdb_output_chars(Chars("~\"" \o dec_in.arg \o "\"")),
                 value |-> parse_gdb_output_chars(Chars("^done,k=\"" \o dec_in.arg \o "\""))]
  /\ dec_done' = TRUE
  /\ UNCHANGED <<dec_in, cvars, hvars, gvars>>

\* The bodies in which no quote ends the string: every quote is escaped.
RECURSIVE NoClosingQuote(_)
NoClosingQuote(cs) ==
  \/ cs = <<>>
  \/ Head(cs) = "\\" /\ (Len(cs) = 1 \/ NoClosingQuote(Tail(Tail(cs))))
  \/ Head(cs) \notin {"\\", "\""} /\ NoClosingQuote(Tail(cs))

UnterminatedBodies == {b \in QuotedBodies : NoClosingQuote(Chars(b))}

\* A quoted string that the end of the line cuts short, parsed as the value
\* of a result, as the value of an async record's result and as the payload
\* of a stream record.
ParseUnterminated ==
  /\ dec_in.fn = "unterminated"
  /\ ~dec_done
  /\ dec_out' = [value |-> parse_gdb_output_chars(Chars("^done,k=\"" \o dec_in.arg)),
                 async |-> parse_gdb_output_chars(Chars("*stopped,k=\"" \o dec_in.arg)),
                 stream |-> parse_gdb_output_chars(Chars("~\"" \o dec_in.arg))]
  /\ dec_done' = TRUE
  /\ UNCHANGED <<dec_in, cvars, hvars, gvars>>

\* break_list applied to one reply.
BreakList ==
  /\ dec_in.fn = "break_list"
  /\ ~dec_done
  /\ dec_out' = break_list(dec_in.arg)
  /\ dec_done' = TRUE
  /\ UNCHANGED <<dec_in, cvars, hvars, gvars>>

\* stack_list_frames applied to one reply.
StackListFrames ==
  /\ dec_in.fn = "stack_list_frames"
  /\ ~dec_done
  /\ dec_out' = stack_list_frames(dec_in.arg)
  /\ dec_done' = TRUE
  /\ UNCHANGED <<dec_in, cvars, hvars, gvars>>

\* A text parsed as a stop reason and, when it is one, printed again.
ReasonFromStr ==
  /\ dec_in.fn = "from_str"
  /\ ~dec_done
  /\ dec_out' = [parsed |-> from_str(dec_in.arg),
                 printed |-> IF from_str(dec_in.arg).some
                               THEN to_string(from_str(dec_in.arg).v) ELSE ""]
  /\ dec_done' = TRUE
  /\ UNCHANGED <<dec_in, cvars, hvars, gvars>>

\* A stop reason printed and the text parsed again.
ReasonToString ==
  /\ dec_in.fn = "to_string"
  /\ ~dec_done
  /\ dec_out' = [printed |-> to_string(dec_in.arg),
                 parsed |-> from_str(to_string(dec_in.arg))]
  /\ dec_done' = TRUE
  /\ UNCHANGED <<dec_in, cvars, hvars, gvars>>

DecodeInputs ==
  {[fn |-> "parse_gdb_output", arg |-> l] : l \in ParseInputs}
    \cup {[fn |-> "quoted", arg |-> b] : b \in QuotedBodies}
    \cup {[fn |-> "unterminated", arg |-> b] : b \in UnterminatedBodies}
    \cup {[fn |-> "break_list", arg |-> l] : l \in BreakListReplies}
    \cup {[fn |-> "stack_list_frames", arg |-> l] : l \in StackReplies}
    \cup {[fn |-> "from_str", arg |-> t] : t \in ReasonTexts}
    \cup {[fn |-> "to_string", arg |-> r] : r \in StopReasons}

DecodeInit ==
  /\ impl = "comm"
  /\ is_running = FALSE
  /\ stdin = 0
  /\ process = 0
  /\ token_counter = 1
  /\ pending_commands = {}
  /\ events = <<>>
  /\ calls = <<>>
  /\ borrow = NoBorrow
  /\ readers = [s \in Sessions |-> NoReader]
  /\ child = [s \in Sessions |-> "none"]
  /\ sessions = 0
  /\ alloc = <<>>
  /\ stdin_log = <<>>
  /\ emitted = 0
  /\ lastline = NoLine
  /\ ret = [op |-> "new", res |-> NoRet]
  /\ HandlerNew(0)
  /\ dec_in \in DecodeInputs
  /\ dec_out = <<>>
  /\ dec_done = FALSE
  /\ GuiNew

DecodeNext ==
  \/ ParseLine
  \/ ParseQuoted
  \/ ParseUnterminated
  \/ BreakList
  \/ StackListFrames
  \/ ReasonFromStr
  \/ ReasonToString

DecodeSpec == DecodeInit /\ [][DecodeNext]_vars

\* ------------------------------------------------- a handler with a full buffer
StreamTypes == <<"Console", "Target", "Log">>

\* The buffer of a handler that has handled ConsoleLimit - 1 stream records.
ConsoleFilled ==
  [i \in 1..(ConsoleLimit - 1) |->
     [content |-> IF i = 1 THEN "first" ELSE "more",
      stream_type |-> StreamTypes[(i % Len(StreamTypes)) + 1]]]

ConsoleLines ==
  {StreamLine(t, c) : t \in {"Console", "Target", "Log"}, c \in {"hello", "bye"}}

\* As HandlerInit, after the stream records that gave ConsoleFilled were
\* handled; sent and handled count from here on.
ConsoleInit ==
  /\ impl = "comm"
  /\ is_running = FALSE
  /\ stdin = 0
  /\ process = 0
  /\ token_counter = 1
  /\ pending_commands = {}
  /\ events = <<>>
  /\ calls = <<>>
  /\ borrow = NoBorrow
  /\ readers = [s \in Sessions |-> NoReader]
  /\ child = [s \in Sessions |-> "none"]
  /\ sessions = 0
  /\ alloc = <<>>
  /\ stdin_log = <<>>
  /\ emitted = 0
  /\ lastline = NoLine
  /\ ret = [op |-> "new", res |-> NoRet]
  /\ event_channel = <<>>
  /\ sent = [stdout |-> 0, stderr |-> 0]
  /\ handled = <<>>
  /\ execution_info = ExecutionInfoDefault
  /\ state_change_callbacks \in 0..MaxObservers
  /\ state_notified = NotNotified
  /\ console_output = ConsoleFilled
  /\ output_notified = Len(ConsoleFilled)
  /\ output_callbacks = <<>>
  /\ output_log = <<>>
  /\ lifecycle_calls = 0
  /\ NoDecoding
  /\ GuiNew

ConsoleNext ==
  \/ \E line \in ConsoleLines : StdoutSend(line)
  \/ \E text \in StderrTexts : StderrSend(text)
  \/ HandleEvent
  \/ OnOutput

ConsoleSpec == ConsoleInit /\ [][ConsoleNext]_vars

\* ====================================================================== GUI
\* KatoriApp (katori-gui/src/app.rs): the egui thread renders AppState and
\* sends GdbCommands; command_processor executes them one at a time on the
\* GdbAdapter, holding its lock for the whole command, and answers with
\* DebugEvents that process_events applies to AppState.  Of the adapter only
\* the running flag is looked at here.

MaxClicks == 4

CommandCompleted(command) == [kind |-> "CommandCompleted", command |-> command]
CommandFailed(command) == [kind |-> "CommandFailed", command |-> command]
ConsoleMessage == [kind |-> "ConsoleMessage", command |-> ""]
AttachSuccess == [kind |-> "AttachSuccess", command |-> ""]
AttachFailed == [kind |-> "AttachFailed", command |-> ""]
DetachSuccess == [kind |-> "DetachSuccess", command |-> ""]

\* AppState::reset_debug_state, as far as the two flags go.
reset_debug_state(st) == [st EXCEPT !.is_debugging = FALSE, !.is_attached = FALSE]

\* One arm of the match in process_events: AppState after the event.
process_event(st, event) ==
  CASE event.kind = "AttachSuccess" -> [st EXCEPT !.is_attached = TRUE]
    [] event.kind = "DetachSuccess" -> [st EXCEPT !.is_attached = FALSE]
    [] event = CommandCompleted("StartSession") -> [st EXCEPT !.is_debugging = TRUE]
    [] event = CommandCompleted("StopSession") -> reset_debug_state(st)
    [] event = CommandFailed("StartSession") -> [st EXCEPT !.is_debugging = FALSE]
    [] OTHER -> st

\* The commands process_events itself sends for one event.
auto_refresh(event) ==
  IF \/ event.kind = "AttachSuccess"
     \/ /\ event.kind = "CommandCompleted"
        /\ event.command \in {"StepOver", "StepInto", "StepOut", "Interrupt"}
    THEN <<"RefreshDebugInfo">> ELSE <<>>

\* process_events: `while let Ok(event) = self.event_receiver.try_recv()`
\* over the events ev; the AppState and the commands sent at its end.
RECURSIVE process_events(_, _, _)
process_events(st, sentc, ev) ==
  IF ev = <<>> THEN [state |-> st, commands |-> sentc]
  ELSE process_events(process_event(st, Head(ev)), sentc \o auto_refresh(Head(ev)), Tail(ev))

\* The core as far as the GUI touches it: the running flag.
CoreButFlag ==
  <<impl, stdin, process, token_counter, pending_commands, events, calls, borrow,
    readers, child, sessions, alloc, stdin_log, emitted, lastline, ret>>

\* A frame of KatoriApp::update: the events received so far are applied.
ProcessEvents ==
  /\ debug_events # <<>>
  /\ LET r == process_events(app_state, <<>>, debug_events) IN
     /\ app_state' = r.state
     /\ command_channel' = command_channel \o r.commands
  /\ debug_events' = <<>>
  /\ UNCHANGED <<clicks, is_running>>
  /\ UNCHANGED CoreButFlag
  /\ UNCHANGED hvars
  /\ UNCHANGED pvars

\* The buttons render_toolbar and render_attach_panel show for AppState st.
Buttons(st) ==
  (IF st.is_debugging THEN {"StopSession"} ELSE {"StartSession"})
    \cup {"Attach"}
    \cup (IF st.is_attached THEN {"Detach"} ELSE {})

\* The user clicks a button of the frame just rendered.
Click(command) ==
  /\ clicks < MaxClicks
  /\ command \in Buttons(app_state)
  /\ clicks' = clicks + 1
  /\ command_channel' = Append(command_channel, command)
  /\ UNCHANGED <<app_state, debug_events, is_running>>
  /\ UNCHANGED CoreButFlag
  /\ UNCHANGED hvars
  /\ UNCHANGED pvars

\* One turn of command_processor for the command it received.  `ok` is what
\* lies outside the adapter: whether GDB could be spawned, whether GDB
\* answers the command with ^done or ^connected.
command_processor(command, running, ok) ==
  CASE command = "StartSession" ->
         IF ~running /\ ok
           THEN [running |-> TRUE,
                 events |-> <<CommandCompleted(command), ConsoleMessage>>]
           ELSE [running |-> running,
                 events |-> <<CommandFailed(command), ConsoleMessage>>]
    [] command = "StopSession" ->
         [running |-> FALSE, events |-> <<CommandCompleted(command), ConsoleMessage>>]
    [] command = "Attach" ->
         [running |-> running,
          events |-> IF running /\ ok THEN <<AttachSuccess>> ELSE <<AttachFailed>>]
    [] command = "Detach" ->
         [running |-> running,
          events |-> IF running /\ ok THEN <<DetachSuccess>>
                     ELSE <<CommandFailed(command)>>]
    [] OTHER ->  \* RefreshDebugInfo
         [running |-> running, events |-> <<CommandCompleted(command), ConsoleMessage>>]

ProcessCommand(ok) ==
  /\ command_channel # <<>>
  /\ LET r == command_processor(Head(command_channel), is_running, ok) IN
     /\ is_running' = r.running
     /\ debug_events' = debug_events \o r.events
  /\ command_channel' = Tail(command_channel)
  /\ UNCHANGED <<app_state, clicks>>
  /\ UNCHANGED CoreButFlag
  /\ UNCHANGED hvars
  /\ UNCHANGED pvars

GuiInit ==
  /\ impl = "adapter"
  /\ is_running = FALSE
  /\ stdin = 0
  /\ process = 0
  /\ token_counter = 1
  /\ pending_commands = {}
  /\ events = <<>>
  /\ calls = <<>>
  /\ borrow = NoBorrow
  /\ readers = [s \in Sessions |-> NoReader]
  /\ child = [s \in Sessions |-> "none"]
  /\ sessions = 0
  /\ alloc = <<>>
  /\ stdin_log = <<>>
  /\ emitted = 0
  /\ lastline = NoLine
  /\ ret = [op |-> "new", res |-> NoRet]
  /\ HandlerNew(0)
  /\ NoDecoding
  /\ GuiNew

GuiNext ==
  \/ \E command \in {"StartSession", "StopSession", "Attach", "Detach"} : Click(command)
  \/ \E ok \in BOOLEAN : ProcessCommand(ok)
  \/ ProcessEvents

GuiSpec == GuiInit /\ [][GuiNext]_vars

\* ===================================================================== claims
\* A step in which a stdout reader read one line (now in lastline').
ReadStep == emitted' = emitted + 1
\* What the parser made of the line just read.
OutRead == parse_gdb_output(lastline')
\* The line just read reached the router and parsed as a result record.
ReadResult ==
  /\ ReadStep
  /\ lastline'.kind \notin {"blank", "badutf8"}
  /\ OutRead.ok
  /\ OutRead.kind = "Result"
\* The reader that took the step is back at the top of its loop.
ReaderGoesOn ==
  \A s \in Sessions : readers'[s] # readers[s] => readers'[s].pc = "check"

\* C1: when the reader parses a result record with token T and an entry for T
\* is pending, that entry and no other is removed, the record goes into the
\* oneshot of the call that allocated T (if that call still holds its
\* receiver) and nowhere else, and no event is emitted.
C1_RoutedToOwnerOnly ==
  [][(ReadResult /\ OutRead.token.some /\ OutRead.token.v \in pending_commands) =>
       LET T == OutRead.token.v IN
       /\ pending_commands' = pending_commands \ {T}
       /\ events' = events
       /\ \A t \in DOMAIN calls \ {T} : calls'[t] = calls[t]
       /\ calls'[T] = IF calls[T].st \in {"writing", "waiting"}
                        THEN [calls[T] EXCEPT !.slot = Full(OutRead), !.ncompl = @ + 1]
                        ELSE calls[T]]_vars

\* A waiting call holds the record of its own token, its entry is gone, and
\* another entry is still pending.
C1_Witness ==
  \E T \in DOMAIN calls :
    /\ calls[T].st = "waiting"
    /\ calls[T].slot.full
    /\ lastline.kind = "result" /\ lastline.digits = "u32" /\ lastline.tok = T
    /\ T \notin pending_commands
    /\ pending_commands # {}

\* C2: a result record whose token has no pending entry is discarded: no
\* event, no change to the pending table or to any call, and the reader
\* continues with the next line.
C2_SpuriousTokenDiscarded ==
  [][(ReadResult /\ OutRead.token.some /\ OutRead.token.v \notin pending_commands) =>
       /\ events' = events
       /\ pending_commands' = pending_commands
       /\ calls' = calls
       /\ ReaderGoesOn]_vars

\* A record with a token that was never issued has been read while another
\* command was pending.
C2_Witness ==
  /\ lastline.kind = "result" /\ lastline.digits = "u32"
  /\ lastline.tok \notin DOMAIN calls
  /\ pending_commands # {}
  /\ events = <<>>
  /\ \E s \in Sessions : readers[s].pc = "check"

\* C3: a result record without a token is emitted exactly once as a Result
\* event and completes or removes no pending command.
C3_TokenlessResultIsEvent ==
  [][(ReadResult /\ ~OutRead.token.some) =>
       /\ events' = Append(events, OutRead)
       /\ pending_commands' = pending_commands
       /\ calls' = calls]_vars

\* A token-less result has been emitted as an event while a call was waiting
\* for its own record.
C3_Witness ==
  /\ lastline.kind = "result" /\ lastline.digits = "none"
  /\ events # <<>>
  /\ events[Len(events)].kind = "Result"
  /\ \E T \in pending_commands : calls[T].st = "waiting" /\ ~calls[T].slot.full

\* C4: the tokens allocated over the life of one instance start at 1 and are
\* strictly increasing (hence pairwise distinct) in allocation order, across
\* stop and restart of sessions.
C4_TokensIncreasing ==
  /\ alloc # <<>> => alloc[1] = 1
  /\ \A i, j \in 1..Len(alloc) : i < j => alloc[i] < alloc[j]

\* Tokens were allocated in two different sessions: the write of token 1
\* failed on the stdin of a child that had exited, and token 2 is in flight
\* on the stdin of the second child, which is alive.
C4_Witness ==
  /\ alloc = <<1, 2>>
  /\ calls[1].st = "returned" /\ calls[1].res.kind = "Err" /\ calls[1].res.err \in {"WriteError", "CommunicationError"}
  /\ calls[2].st \in {"writing", "waiting"}
  /\ stdin = 2
  /\ child[2] = "alive"

\* C5: every send_command whose command was written eventually returns.  A
\* call returns only through its oneshot, and only a stdout reader fills it;
\* while the call waits it holds the instance exclusively, so no session can
\* be set up or stopped.  Hence no state may be reached in which a written
\* call waits on an empty oneshot and no stdout reader is left to fill it.
C5_WrittenCallCanReturn ==
  \A T \in DOMAIN calls :
    (calls[T].st = "waiting" /\ ~calls[T].slot.full) =>
      \E s \in Sessions : readers[s].pc \in {"check", "reading"}

\* C6: at most one completion is ever delivered for a token, and once it is
\* delivered the entry is gone, so later records with that token complete
\* nothing.
C6_AtMostOneCompletion ==
  \A T \in DOMAIN calls :
    /\ calls[T].ncompl <= 1
    /\ calls[T].ncompl = 1 => T \notin pending_commands

\* The call got `done`; a second record with its token, an error, was read
\* afterwards and changed nothing.
C6_Witness ==
  \E T \in DOMAIN calls :
    /\ calls[T].st = "returned"
    /\ calls[T].res.kind = "Ok"
    /\ calls[T].ncompl = 1
    /\ lastline.kind = "result" /\ lastline.digits = "u32" /\ lastline.tok = T
    /\ lastline.class = "error"
    /\ events = <<>>

\* C7: while the running flag is false no step allocates a token, registers
\* a pending entry or writes to stdin, and a send_command returns the
\* not-running error at once (ChannelClosed in GdbCommunication,
\* ProcessTerminated in GdbAdapter).
C7_SendWhileStopped ==
  [][~is_running =>
       /\ token_counter' = token_counter
       /\ alloc' = alloc
       /\ DOMAIN calls' = DOMAIN calls
       /\ pending_commands' \subseteq pending_commands
       /\ stdin_log' = stdin_log
       /\ (ret' # ret /\ ret'.op = "send") =>
            ret'.res = IF impl = "comm" THEN Err("ChannelClosed", "")
                       ELSE Err("ProcessTerminated", "")]_vars

\* A send_command was rejected after the session that had allocated tokens
\* was stopped.
C7_Witness ==
  /\ ~is_running
  /\ ret.op = "send"
  /\ ret.res.kind = "Err"
  /\ token_counter > 1
  /\ borrow = NoBorrow

\* C8: a call that receives a record of class error with a msg text returns
\* the GDB error carrying that text; the step emits no event and leaves every
\* other call, the pending table and the running flag unchanged.
C8_ErrorToCallerOnly ==
  [][\A T \in DOMAIN calls :
       (calls[T].st = "waiting" /\ calls'[T].st = "returned"
          /\ calls[T].slot.full /\ calls[T].slot.class = "error"
          /\ calls[T].slot.msg \in MsgTexts) =>
         /\ calls'[T].res = Err(IF impl = "comm" THEN "GdbError" ELSE "CommandError",
                                calls[T].slot.msg)
         /\ events' = events
         /\ pending_commands' = pending_commands
         /\ is_running' = is_running
         /\ \A t \in DOMAIN calls \ {T} : calls'[t] = calls[t]]_vars

\* A call returned the GDB error while another entry was pending.
C8_Witness ==
  \E T \in DOMAIN calls :
    /\ calls[T].st = "returned"
    /\ calls[T].res.err \in {"GdbError", "CommandError"}
    /\ calls[T].res.msg \in MsgTexts
    /\ pending_commands # {}
    /\ events = <<>>
    /\ is_running

\* C9: after session shutdown has completed the pending table is empty.
C9_StopDrainsTable ==
  (ret.op = "stop" /\ ~is_running /\ borrow = NoBorrow) => pending_commands = {}

\* C10: once the stdout reader of the current session has seen end of file or
\* a read error, the session is not reported as running, a connection-lost
\* event is in the event stream and no call is left waiting.
C10_EofEndsSession ==
  \A s \in Sessions :
    (readers[s].pc = "finished" /\ readers[s].why = "io" /\ stdin = s) =>
      /\ ~is_running
      /\ \E i \in 1..Len(events) : events[i].kind = "ConnectionLost"
      /\ \A T \in DOMAIN calls : calls[T].st # "waiting"

\* C11: stop_session invoked on a GdbAdapter whose session is stopped returns
\* Ok and changes nothing: no token is allocated, nothing is registered or
\* written, no child is killed, and the call does not go on to gdb-exit.
C11_StopSessionIdempotent ==
  [][(impl = "adapter" /\ ~is_running /\ borrow = NoBorrow) =>
       /\ borrow'.kind # "stop"
       /\ (ret' # ret /\ ret'.op = "stop") =>
            /\ ret'.res = Ok("", "")
            /\ UNCHANGED <<is_running, stdin, process, token_counter, pending_commands,
                           events, calls, borrow, readers, child, sessions, alloc,
                           stdin_log, emitted>>]_vars

\* stop_session has returned Ok on an adapter that never started a session:
\* the return can only come from the early return, and nothing was allocated
\* or written.
C11_Witness ==
  /\ impl = "adapter"
  /\ ret = [op |-> "stop", res |-> Ok("", "")]
  /\ ~is_running
  /\ borrow = NoBorrow
  /\ sessions = 0
  /\ token_counter = 1
  /\ stdin_log = <<>>

\* C13: while a GdbAdapter session is running no step spawns a child or
\* replaces the process or stdin handle by another one, and start_session
\* returns an error and leaves the child, stdin handle, pending table, token
\* counter and running flag unchanged.
C13_StartWhileRunningRejected ==
  [][(impl = "adapter" /\ is_running) =>
       /\ sessions' = sessions
       /\ process' \in {process, 0}
       /\ stdin' \in {stdin, 0}
       /\ (ret' # ret /\ ret'.op = "start") =>
            /\ ret'.res.kind = "Err"
            /\ UNCHANGED <<is_running, stdin, process, token_counter, pending_commands,
                           child, readers, sessions, calls, borrow>>]_vars

\* start_session was rejected while the one child of the running session is
\* alive and a command is pending; the handles are those of child 1.
C13_Witness ==
  /\ impl = "adapter"
  /\ is_running
  /\ ret = [op |-> "start", res |-> Err("CommandError", "GDB session already running")]
  /\ sessions = 1
  /\ process = 1
  /\ stdin = 1
  /\ child[1] = "alive"
  /\ pending_commands # {}

\* C14: in GdbAdapter the running flag is false at creation, is raised only
\* by the last step of a start_session that returns Ok (a failed start leaves
\* it as it was), is false whenever stop_session returns, and while it is
\* true the adapter holds a process handle and a stdin handle.
C14_RunningFlagLifecycle ==
  /\ (impl = "adapter" /\ sessions = 0 /\ ret.op = "new") => ~is_running
  /\ [](impl = "adapter" /\ is_running => process # 0 /\ stdin # 0)
  /\ [][impl = "adapter" =>
          /\ (~is_running /\ is_running') =>
               (borrow.kind = "start" /\ ret' = [op |-> "start", res |-> Ok("", "")])
          /\ (ret' # ret /\ ret'.op = "start" /\ ret'.res.kind = "Err") =>
               is_running' = is_running
          /\ (ret' # ret /\ ret'.op = "stop") => ~is_running']_vars

\* A session was started and stopped and a second one is running on the
\* handles of the second child.
C14_Witness ==
  /\ impl = "adapter"
  /\ is_running
  /\ sessions = 2
  /\ process = 2
  /\ stdin = 2
  /\ child[1] = "exited"
  /\ ret = [op |-> "start", res |-> Ok("", "")]

\* C28: a send_command call that has written its command and waits for its
\* record has an entry in the pending table under its token; once its record
\* has been delivered to it the table has no entry for that token.
C28_WaitingCallIsPending ==
  \A T \in DOMAIN calls :
    /\ (calls[T].st = "waiting" /\ ~calls[T].slot.full) => T \in pending_commands
    /\ (calls[T].slot.full \/ calls[T].ncompl > 0) => T \notin pending_commands

\* Token 1 was resolved by its record, which its call has received, and is
\* gone from the table; the call of token 2 has written its command and is
\* the one entry of the table.
C28_Witness ==
  /\ DOMAIN calls = {1, 2}
  /\ calls[1].st = "returned" /\ calls[1].ncompl = 1
  /\ calls[2].st = "waiting" /\ ~calls[2].slot.full
  /\ pending_commands = {2}

\* C29: a send_command that returned because stdin was absent or the write
\* failed has left no entry for its token in the pending table.
C29_FailedSendRemovesEntry ==
  \A T \in DOMAIN calls :
    (calls[T].st = "returned" /\ calls[T].res \in {ErrNoStdin, ErrWrite}) =>
      T \notin pending_commands

\* C30: reading a line that does not parse emits no event, completes and
\* removes no pending entry, leaves every call and the running flag as they
\* were, and the reader goes on to its next line.
C30_ParseErrorSkipped ==
  [][(ReadStep /\ lastline'.kind = "garbage") =>
       /\ ~OutRead.ok
       /\ events' = events
       /\ pending_commands' = pending_commands
       /\ calls' = calls
       /\ is_running' = is_running
       /\ ReaderGoesOn]_vars

\* A malformed line has been read while the session runs and a call waits
\* for its record: the call still waits, its entry is still pending, no
\* event was emitted and the reader is back at the top of its loop.
C30_Witness ==
  /\ lastline.kind = "garbage"
  /\ is_running
  /\ events = <<>>
  /\ \E T \in pending_commands : calls[T].st = "waiting" /\ ~calls[T].slot.full
  /\ \E s \in Sessions : readers[s].pc = "check"

\* ------------------------------------------------------ event handler claims
\* A step in which the handler took an event from the channel, and the event.
HandleStep == Len(handled') = Len(handled) + 1
Taken == Head(event_channel).event
HandlesStopped == HandleStep /\ Taken.kind = "Async" /\ Taken.class = "Stopped"
LastHandled == handled[Len(handled)].event
Paused == DebugState("Paused")
Running == DebugState("Running")
ExitReasons == {"exited", "exited-normally", "exited-signalled"}

\* The events of one stream, sent so far, in the order the consumer gets them.
OfStream(src) ==
  SelectSeq(handled \o event_channel, LAMBDA m : m.src = src)

\* C12: the events a reader sent reach the consumer in the order the reader
\* sent them, each once: at every moment the events of a stream already
\* handled followed by those still in the channel are the 1st, 2nd, ... event
\* of that stream, up to the last one sent.
C12_StreamOrderKept ==
  \A src \in {"stdout", "stderr"} :
    /\ Len(OfStream(src)) = sent[src]
    /\ \A i \in 1..Len(OfStream(src)) : OfStream(src)[i].n = i

\* The consumer has handled two different stdout events, an async record and
\* then a stream record, in the order the reader sent them.
C12_Witness ==
  /\ Len(handled) = 2
  /\ handled[1].src = "stdout" /\ handled[2].src = "stdout"
  /\ handled[1].event.kind = "Async" /\ handled[2].event.kind = "Stream"

\* What the exit-code texts drawn here denote.
ExitCodeTable ==
  {[text |-> <<"0">>, code |-> 0], [text |-> <<"2">>, code |-> 2],
   [text |-> <<"0", "2">>, code |-> 2], [text |-> <<"-", "1">>, code |-> -1]}

\* C15: handling a stopped record with reason exited-normally gives state
\* Exited(0) and exit_code 0; with reason exited and an exit-code text that
\* denotes the i32 N it gives state Exited(N) and exit_code N.
C15_ExitedSetsCode ==
  [][(HandlesStopped /\ as_string(Taken.results.reason)) =>
       /\ Taken.results.reason.s = "exited-normally" =>
            /\ execution_info'.state = Exited(0)
            /\ execution_info'.exit_code = Some(0)
       /\ \A x \in ExitCodeTable :
            (Taken.results.reason.s = "exited"
               /\ Taken.results.exit_code = NumV(x.text)) =>
              /\ execution_info'.state = Exited(x.code)
              /\ execution_info'.exit_code = Some(x.code)]_vars

\* The program was running and `*stopped,reason="exited",exit-code="02"` has
\* been handled.
C15_Witness ==
  /\ Len(handled) = 2
  /\ handled[1].event.class = "Running"
  /\ LastHandled.class = "Stopped"
  /\ LastHandled.results.reason = StrV("exited")
  /\ LastHandled.results.exit_code = NumV(<<"0", "2">>)
  /\ execution_info.state = Exited(2)
  /\ execution_info.exit_code = Some(2)

\* C16: handling in state Running a stopped record whose reason is not an
\* exit reason and whose frame is the tuple {addr, func="main", file, line}
\* gives state Paused, records the reason, and sets current_frame to the
\* decoded frame, whose func is main; for signal-received the signal name
\* and meaning are recorded too.
C16_StopDecodesFrame ==
  [][(HandlesStopped /\ execution_info.state = Running
        /\ as_string(Taken.results.reason)
        /\ Taken.results.reason.s \notin ExitReasons
        /\ Taken.results.frame = TupleF(FrameOfStop)) =>
       /\ execution_info'.state = Paused
       /\ execution_info'.reason = SomeStr(Taken.results.reason.s)
       /\ execution_info'.current_frame.some
       /\ execution_info'.current_frame.v.func = SomeStr("main")
       /\ Taken.results.reason.s = "signal-received" =>
            /\ execution_info'.signal_name = opt_string(Taken.results.signal_name)
            /\ execution_info'.signal_meaning = opt_string(Taken.results.signal_meaning)]_vars

\* C17: after handling a stopped record the state is an Exited state if the
\* record's reason is exited, exited-normally or exited-signalled, and
\* Paused otherwise.
C17_ExitReasonsExit ==
  [][HandlesStopped =>
       IF as_string(Taken.results.reason) /\ Taken.results.reason.s \in ExitReasons
         THEN execution_info'.state.k = "Exited"
         ELSE execution_info'.state = Paused]_vars

\* C18: handling a running record in state Starting or Paused gives state
\* Running with current_frame and reason cleared, and every state observer
\* is invoked with the new ExecutionInfo.
C18_RunningClears ==
  [][(HandleStep /\ Taken.kind = "Async" /\ Taken.class = "Running"
        /\ execution_info.state.k \in {"Starting", "Paused"}) =>
       /\ execution_info'.state = Running
       /\ execution_info'.current_frame = NoneFrame
       /\ execution_info'.reason = NoneStr
       /\ state_notified'.n = state_notified.n + state_change_callbacks
       /\ state_change_callbacks > 0 => state_notified'.info = execution_info']_vars

\* The program stopped at a breakpoint with a decoded frame and then ran on;
\* the observer was invoked for both records, last with the cleared info.
C18_Witness ==
  /\ Len(handled) = 2
  /\ handled[1].event.class = "Stopped"
  /\ handled[1].event.results.reason = StrV("breakpoint-hit")
  /\ handled[1].event.results.frame = TupleF(FrameWithLevel)
  /\ LastHandled.class = "Running"
  /\ execution_info.state = Running
  /\ execution_info.current_frame = NoneFrame
  /\ execution_info.reason = NoneStr
  /\ state_change_callbacks = 1
  /\ state_notified = [n |-> 2, info |-> execution_info]

\* C19: handling a thread-group-exited notification gives state Exited(0),
\* whatever the state was.
C19_ThreadGroupExited ==
  [][(HandleStep /\ Taken.kind = "Async" /\ Taken.class = "ThreadGroupExited") =>
       execution_info'.state = Exited(0)]_vars

\* The state was Exited(2) when the notification was handled.
C19_Witness ==
  /\ Len(handled) = 2
  /\ handled[1].event.results.exit_code = NumV(<<"2">>)
  /\ LastHandled.class = "ThreadGroupExited"
  /\ execution_info.state = Exited(0)
  /\ execution_info.exit_code = Some(2)

\* C20: handling a stream record, a token-less result record or an async
\* record of any class but running, stopped and thread-group-exited leaves
\* ExecutionInfo unchanged and invokes no state observer; and the state
\* changes only when one of those three classes is handled or
\* set_execution_state is called.
C20_OnlyExecRecordsMutate ==
  [][/\ (HandleStep /\ ~(Taken.kind = "Async"
                          /\ Taken.class \in {"Running", "Stopped", "ThreadGroupExited"})) =>
          /\ execution_info' = execution_info
          /\ state_notified' = state_notified
     /\ execution_info'.state # execution_info.state =>
          \/ /\ HandleStep
             /\ Taken.kind = "Async"
             /\ Taken.class \in {"Running", "Stopped", "ThreadGroupExited"}
          \/ lifecycle_calls' = lifecycle_calls + 1]_vars

\* A running record and then a library-loaded notification were handled: the
\* observer was invoked once, for the first.
C20_Witness ==
  /\ Len(handled) = 2
  /\ handled[1].event.class = "Running"
  /\ LastHandled.kind = "Async"
  /\ LastHandled.class = "LibraryLoaded"
  /\ execution_info.state = Running
  /\ state_change_callbacks = 1
  /\ state_notified.n = 1

\* ---------------------------------------------------- console buffer claims
\* The stream records handled so far, oldest first, as buffer entries.
RECURSIVE StreamsOf(_)
StreamsOf(hs) ==
  IF hs = <<>> THEN <<>>
  ELSE LET e == Head(hs).event IN
       (IF e.kind = "Stream"
          THEN <<[content |-> e.content, stream_type |-> e.class]>>
          ELSE <<>>) \o StreamsOf(Tail(hs))
Arrived == ConsoleFilled \o StreamsOf(handled)
Min(a, b) == IF a < b THEN a ELSE b

\* C21: after any number n of stream records the console buffer holds
\* min(n, 1000) entries: the newest ones, in arrival order, each with the
\* channel and content of its record; get_console_output(None) returns
\* exactly them.
C21_ConsoleBufferBounded ==
  LET n == Len(Arrived)
      k == Min(n, ConsoleLimit) IN
  /\ Len(console_output) = k
  /\ Len(console_output) <= ConsoleLimit
  /\ \A i \in 1..k : console_output[i] = Arrived[n - k + i]
  /\ get_console_output(console_output, None) = console_output

\* One more record than the buffer holds has been handled: the buffer is
\* full, the oldest entry is gone and the newest is last.
C21_Witness ==
  /\ Len(Arrived) = ConsoleLimit + 1
  /\ Len(console_output) = ConsoleLimit
  /\ console_output[1] = ConsoleFilled[2]
  /\ console_output[ConsoleLimit] = [content |-> "bye", stream_type |-> "Target"]

\* ------------------------------------------------------- claims on decoders
\* A decoder of the given name has been applied to its input.
Applied(fn) == dec_done /\ dec_in.fn = fn
\* The line handed to parse_gdb_output, trimmed.
TrimmedLine == trim(Chars(dec_in.arg))
\* The status lines GDB writes while it downloads to a target.
StatusLines == {"+download", "+download,section=\".text\""}

\* C24: parse_gdb_output classifies a line by its first character: ~ @ & give
\* a stream record of the console, target and log channel; * = and + give an
\* async record; a result record comes from a line with ^ and carries the
\* class and the token written on it; a line of no known form is an error.
C24_ClassifiedByPrefix ==
  (Applied("parse_gdb_output") /\ TrimmedLine # <<>> /\ TrimmedLine # Chars("(gdb)")) =>
    LET line == TrimmedLine
        c == Head(line)
    IN /\ (c \in DOMAIN StreamPrefix /\ Len(line) >= 2) =>
            (dec_out.kind = "Stream" /\ dec_out.class = StreamPrefix[c])
       /\ dec_out.kind = "Stream" => c \in DOMAIN StreamPrefix
       /\ dec_out.kind = "Async" => c \in {"*", "=", "+"}
       /\ dec_in.arg \in StatusLines => dec_out.kind = "Async"
       /\ dec_out.kind = "Result" =>
            /\ c \in Digits \cup {"^"}
            /\ dec_out.class \in ResultClasses
            /\ dec_out.token.some <=> c \in Digits
       /\ c \notin DOMAIN StreamPrefix \cup {"*", "=", "+", "^"} \cup Digits => ~dec_out.ok

\* C25: whatever line the stdout reader reads, it goes on to the next
\* iteration of its loop.
C25_NoLineEndsReader ==
  [][ReadStep => ReaderGoesOn]_vars

\* The text a quoted body stands for: \n \t \r \\ \" decode to newline, tab,
\* carriage return, backslash and quote, any other escaped character is kept
\* together with its backslash.
RECURSIVE Decoded(_)
Decoded(cs) ==
  IF cs = <<>> THEN ""
  ELSE IF Head(cs) = "\\"
    THEN LET e == Head(Tail(cs)) IN
         (CASE e = "n" -> "\n" [] e = "t" -> "\t" [] e = "r" -> "\r"
            [] e = "\\" -> "\\" [] e = "\"" -> "\"" [] OTHER -> "\\" \o e)
           \o Decoded(Tail(Tail(cs)))
    ELSE Head(cs) \o Decoded(Tail(cs))

\* A body in which every quote is escaped and every backslash escapes a
\* character.
RECURSIVE WellQuoted(_)
WellQuoted(cs) ==
  \/ cs = <<>>
  \/ Head(cs) = "\\" /\ Len(cs) >= 2 /\ WellQuoted(Tail(Tail(cs)))
  \/ Head(cs) \notin {"\\", "\""} /\ WellQuoted(Tail(cs))

\* C26: a quoted string decodes to the same text as the payload of a stream
\* record and as a value of a result record, and that text is the body with
\* its escapes decoded; an escaped quote does not end the string.
C26_SameUnescaping ==
  (Applied("quoted") /\ WellQuoted(Chars(dec_in.arg))) =>
    /\ dec_out.stream.kind = "Stream"
    /\ dec_out.stream.content = Decoded(Chars(dec_in.arg))
    /\ dec_out.value.kind = "Result"
    /\ map_has(dec_out.value.results, "k")
    /\ map_get(dec_out.value.results, "k") = MiString(Decoded(Chars(dec_in.arg)))

\* The body \"a has been decoded to "a on both paths.
C26_Witness ==
  /\ Applied("quoted")
  /\ dec_in.arg = "\\\"a"
  /\ dec_out.stream.content = "\"a"
  /\ map_get(dec_out.value.results, "k").s = "\"a"

\* C27: printing a stop reason and parsing the text gives the reason back;
\* a text that parses as a reason is the text that reason prints; no two
\* reasons print the same text.
C27_StopReasonRoundTrip ==
  /\ Applied("to_string") => dec_out.parsed = SomeStr(dec_in.arg)
  /\ (Applied("from_str") /\ dec_out.parsed.some) => dec_out.printed = dec_in.arg
  /\ \A r1, r2 \in StopReasons : r1 # r2 => to_string(r1) # to_string(r2)

\* ExitedNormally has been printed as exited-normally and parsed back.
C27_Witness ==
  /\ Applied("to_string")
  /\ dec_in.arg = "ExitedNormally"
  /\ dec_out.printed = "exited-normally"
  /\ dec_out.parsed = SomeStr("ExitedNormally")

\* What the caller of break_list is to get for the results of a done reply.
BreakpointsOf(results, out) ==
  /\ ~has_body(results) => (out.st = "Ok" /\ out.list = <<>>)
  /\ (/\ has_body(results)
      /\ body_of(results).t = "list"
      /\ \A i \in 1..Len(body_of(results).items) :
           /\ body_of(results).items[i].t = "tuple"
           /\ breakpoint_from_tuple(body_of(results).items[i].fields).ok) =>
       /\ out.st = "Ok"
       /\ Len(out.list) = Len(body_of(results).items)
       /\ \A i \in 1..Len(out.list) :
            out.list[i] = breakpoint_from_tuple(body_of(results).items[i].fields).v

\* C22: break_list on a reply that GDB marked done returns the empty list
\* when the reply carries no BreakpointTable body, and one breakpoint per
\* tuple, in order, when the body is a list of tuples.
C22_BreakListDecodes ==
  (Applied("break_list") /\ send_command_reply(dec_in.arg).st = "Ok") =>
    BreakpointsOf(send_command_reply(dec_in.arg).results, dec_out)

\* The replies that list frame 0 at 0x1 and frame 1 at 0x2: as GDB writes
\* them, with bare tuples, and with each tuple wrapped in a tuple.
TwoFrameReplies ==
  {"1^done,stack=[frame={level=\"0\",addr=\"0x1\"},frame={level=\"1\",addr=\"0x2\"}]",
   "1^done,stack=[{level=\"0\",addr=\"0x1\"},{level=\"1\",addr=\"0x2\"}]",
   "1^done,stack=[{frame={level=\"0\",addr=\"0x1\"}},{frame={level=\"1\",addr=\"0x2\"}}]"}

\* C23: stack_list_frames on a reply listing two frames, wrapped as frame={..}
\* or not, returns the two frames with levels 0 and 1.
C23_StackFramesDecoded ==
  (Applied("stack_list_frames") /\ dec_in.arg \in TwoFrameReplies) =>
    /\ dec_out.st = "Ok"
    /\ Len(dec_out.list) = 2
    /\ dec_out.list[1].level = 0 /\ dec_out.list[1].addr = "0x1"
    /\ dec_out.list[2].level = 1 /\ dec_out.list[2].addr = "0x2"

\* -------------------------------------------------------------------- C31
\* The calls whose wait was given up after the command had been written.
AbandonedWritten ==
  {t \in DOMAIN calls :
     calls[t].st = "abandoned" /\ \E i \in 1..Len(stdin_log) : stdin_log[i] = t}

\* A stdout reader reads the result record carrying token t and goes on.
ResultArrives(t) ==
  /\ emitted' = emitted + 1
  /\ lastline'.kind = "result" /\ lastline'.digits = "u32" /\ lastline'.tok = t
  /\ \E s \in Sessions : readers[s].pc = "reading" /\ readers'[s].pc = "check"

\* C31: the pending entry of a command whose wait was abandoned after the
\* command was written stays in the table until a reader reads the result
\* record with its token; that step removes the entry and drops the record:
\* the reader goes on to its next line, no event is sent, and no call
\* (neither the abandoned one nor any other) receives the record.
C31_AbandonedResultDropped ==
  [][\A t \in AbandonedWritten :
       t \in pending_commands =>
         \/ t \in pending_commands'
         \/ /\ ResultArrives(t)
            /\ events' = events
            /\ calls' = calls]_vars

\* The result of an abandoned, written command has arrived: its entry is gone.
C31_Witness ==
  \E t \in AbandonedWritten : t \notin pending_commands

\* -------------------------------------------------------------------- C32
\* stop_session is inside the wait of its gdb-exit command and nothing can
\* end that wait: the oneshot is empty and no stdout reader is left.
StopSessionStuck ==
  /\ borrow.kind = "stop"
  /\ borrow.pc = "send"
  /\ calls[borrow.tok].st = "waiting"
  /\ ~calls[borrow.tok].slot.full
  /\ \A s \in Sessions : readers[s].pc \notin {"check", "reading"}

\* C32: stop_session on a running session always returns, with the flag
\* cleared, the child killed and stdin released, also when GDB never answers
\* gdb-exit.  The cleanup runs only after the gdb-exit call has returned, so
\* no state may be reached in which that call can never return while the
\* session is still marked running with its child process and stdin held.
C32_StopSessionReturns ==
  ~(StopSessionStuck /\ is_running /\ process # 0 /\ stdin # 0)

\* -------------------------------------------------------------------- C33
\* A step of set_execution_state(DebugState::Stopped).
LifecycleStop ==
  /\ lifecycle_calls' = lifecycle_calls + 1
  /\ execution_info'.state = DebugState("Stopped")

HandlesStream ==
  /\ event_channel # <<>>
  /\ event_channel' = Tail(event_channel)
  /\ Head(event_channel).event.kind = "Stream"

\* The invocations observer o has seen, oldest first.
SeenBy(o, log) ==
  LET F[i \in 0..Len(log)] ==
        IF i = 0 THEN <<>>
        ELSE IF log[i].obs = o THEN Append(F[i - 1], [src |-> log[i].src, n |-> log[i].n])
        ELSE F[i - 1]
  IN F[Len(log)]

\* C34: a stream event that is handled is delivered exactly once to every
\* output observer registered at that time, the observers being called in
\* the order of their registration and each observer seeing the events in
\* the order of their arrival, whether or not the console buffer is full;
\* nothing else invokes an output observer, and registering an observer
\* leaves the earlier ones in place.
C34_OutputObserversNotified ==
  [][/\ HandlesStream =>
          LET m == Head(event_channel) IN
          /\ output_callbacks' = output_callbacks
          /\ Len(output_log') = Len(output_log) + Len(output_callbacks)
          /\ SubSeq(output_log', 1, Len(output_log)) = output_log
          /\ \A i \in 1..Len(output_callbacks) :
               output_log'[Len(output_log) + i] =
                 [obs |-> output_callbacks[i], src |-> m.src, n |-> m.n]
          /\ \A o \in 1..MaxOutputObservers :
               SeenBy(o, output_log') =
                 SeenBy(o, output_log) \o
                   (IF \E i \in 1..Len(output_callbacks) : output_callbacks[i] = o
                      THEN <<[src |-> m.src, n |-> m.n]>> ELSE <<>>)
     /\ ~HandlesStream => output_log' = output_log
     /\ output_callbacks' # output_callbacks =>
          /\ Len(output_callbacks') = Len(output_callbacks) + 1
          /\ SubSeq(output_callbacks', 1, Len(output_callbacks)) = output_callbacks
          /\ \A i \in 1..Len(output_callbacks) :
               output_callbacks'[Len(output_callbacks')] # output_callbacks[i]]_vars

\* Two observers were registered one after the other, the second after the
\* first stream event; the second event arrived with the console buffer full
\* and went to the first observer, then to the second.
C34_Witness ==
  /\ output_callbacks = <<1, 2>>
  /\ Len(console_output) = ConsoleLimit
  /\ Len(Arrived) = ConsoleLimit + 1
  /\ Len(output_log) = 3
  /\ output_log[1].obs = 1
  /\ output_log[2].obs = 1 /\ output_log[3].obs = 2
  /\ output_log[2].n = output_log[3].n /\ output_log[2].src = output_log[3].src
  /\ <<output_log[1].src, output_log[1].n>> # <<output_log[2].src, output_log[2].n>>

\* -------------------------------------------------------------------- C35
\* C35: a quoted string value that no closing quote ends before the end of
\* the line makes the parser return an error, not a record.
C35_UnterminatedStringIsError ==
  Applied("unterminated") => (~dec_out.value.ok /\ ~dec_out.async.ok)

\* -------------------------------------------------------------------- C38
\* C38: whenever the state is Exited(n), exit_code is Some(n), whichever of
\* an exit stop and a thread-group-exited notification came last.
C38_ExitedStateHasCode ==
  execution_info.state.k = "Exited" =>
    execution_info.exit_code = Some(execution_info.state.code)

\* -------------------------------------------------------------------- C39
\* C39: the stop details describe the most recent stop only: after a
\* stopped record is handled, signal_name and signal_meaning are present
\* only if that record's reason is signal-received, and current_frame is
\* the frame decoded from that record, absent if it has none that decodes.
C39_StopDetailsOfLatestStop ==
  [][HandlesStopped =>
       LET results == Taken.results
           signalled == as_string(results.reason) /\ results.reason.s = "signal-received"
           decodable == results.frame.t = "tuple" /\ from_tuple(results.frame.tuple).ok
       IN /\ execution_info'.signal_name.some => signalled
          /\ execution_info'.signal_meaning.some => signalled
          /\ execution_info'.current_frame =
               IF decodable THEN SomeFrame(from_tuple(results.frame.tuple).frame)
               ELSE NoneFrame]_vars

\* -------------------------------------------------------------------- C36
\* C36: under every interleaving of start_session with the reader task it
\* spawns, the reader finds the running flag set at its first check: while
\* the session it belongs to is running (start_session has set the flag and
\* no stop_session has cleared it) the reader has not stopped because it
\* found the flag cleared.
C36_ReaderFindsFlagSet ==
  \A s \in Sessions :
    (impl = "adapter" /\ process = s /\ is_running) =>
      ~(readers[s].pc = "finished" /\ readers[s].why = "flag")

\* -------------------------------------------------------------------- C37
\* The running flag has been cleared since the reader of session s was
\* spawned: stop_session took the child of s out of `process` (only a
\* stopped adapter starts another session), resp. stop() released stdin.
FlagClearedSince(s) ==
  /\ s <= sessions
  /\ IF impl = "adapter" THEN process # s ELSE stdin = 0

\* C37: once the running flag has been set to false, a reader finishes the
\* read that was in progress and then terminates: at the top of its loop it
\* never starts another read, so it handles at most one further line and
\* sends at most one further event.
C37_NoReadAfterStop ==
  [][\A s \in Sessions :
       (FlagClearedSince(s) /\ readers[s].pc = "check" /\ readers'[s] # readers[s]) =>
         readers'[s].pc = "finished"]_vars

\* -------------------------------------------------------------------- C40
\* Nothing is in flight between the GUI and the command processor.
GuiSettled == command_channel = <<>> /\ debug_events = <<>>

\* C40: whatever the user clicks and in whatever order the commands
\* complete, the GUI state has is_attached only together with is_debugging,
\* and once every command is answered and every event applied the GUI does
\* not show is_debugging = false while the adapter's session is running.
C40_AttachedImpliesDebugging ==
  /\ app_state.is_attached => app_state.is_debugging
  /\ (GuiSettled /\ is_running) => app_state.is_debugging

====
